---- MODULE Spec2Model ----
(***************************************************************************)
(* Orchestration core of the ground station backend:                       *)
(*   - SharedState      (src/backend/state.py)                             *)
(*   - ProcessSupervisor (src/backups/pre-laser-20251223_052932/           *)
(*                        supervisor.py)                                   *)
(*   - the /ramp/start and /ramp/stop handlers (src/backend/main.py)       *)
(*                                                                         *)
(* Everything runs on one asyncio event loop.  A coroutine runs without    *)
(* interruption until it awaits something that is not ready; the variable  *)
(* `running` names the task that is in the middle of such a run (None      *)
(* between runs).  Every action is one statement-level step of one task;   *)
(* a step of task t is possible only when running is None or t, and the    *)
(* steps that suspend (sleep, an external await, a busy lock, readline,    *)
(* gather) hand the loop back by setting running to None.                  *)
(***************************************************************************)
EXTENDS Integers, Sequences, FiniteSets, TLC

None == "None"

(***************************************************************************)
(* Bounds of the model                                                     *)
(***************************************************************************)
\* store operations started in one behaviour of SpecStore
MaxOps == 3
\* sleeps of a stop poll loop before it gives up (stands for range(50))
StopPolls == 1
\* child processes that exit on their own in one behaviour
MaxExits == 1
\* the wall clock: ticks in one second, and the last tick of a behaviour
TicksPerSecond == 2
MaxTime == 3

(***************************************************************************)
(* Program constants                                                       *)
(***************************************************************************)
EVENTS_MAXLEN == 500
ERRORS_MAXLEN == 50
RTT_MAXLEN == 100

Statuses == {"DISCONNECTED", "CONNECTING", "READY", "RAMPING", "STOPPING", "SAFE"}
Levels == {"INFO", "WARN", "ERROR"}

VARIABLES
    \* ---- SharedState (state.py) ----
    status,         \* SharedState.status
    telemetry,      \* SharedState.telemetry: key -> value, DOMAIN = keys present
    events,         \* SharedState.events   deque(maxlen=500)
    errors,         \* SharedState.errors   deque(maxlen=50)
    rtt_samples,    \* SharedState.rtt_samples deque(maxlen=100)
    session,        \* session_id / scenario of the session record
    lock,           \* SharedState._lock: None or the caller holding it
    \* ---- callers of the store (tasks on the event loop) ----
    spc,            \* position of each store caller inside its current operation
    sloc,           \* its arguments and local variables
    snap,           \* the value its last get_telemetry_snapshot returned
    \* ---- the event loop ----
    running,        \* task in the middle of an uninterrupted run, or None
    \* ---- history (not program state) ----
    nextId,         \* identity of the next event object
    appendedAll,    \* events appended to `events` since the last start_session
    appendedErr,    \* events appended to `errors` since the last start_session
    telHist,        \* telemetry map after every completed merge / session reset
    swaps,          \* <<old, new>> of the status swaps since the last start_session
    lastSwapNew,    \* new status of the most recent swap
    opsStarted,     \* store operations started so far
    \* ---- ProcessSupervisor (supervisor.py) ----
    shutting_down,  \* ProcessSupervisor._shutting_down
    processes,      \* ProcessSupervisor.processes: slot -> process handle or None
    monitor_tasks,  \* ProcessSupervisor._monitor_tasks (a list: order matters)
    \* ---- operating system ----
    procState,      \* each child process: unborn / alive / exit0 / exitN
    socat_installed,\* the socat binary is on the PATH
    exits,          \* child processes that have exited on their own so far
    exitCtx,        \* history: the status and whether a stop_all was in progress
                    \* at the moment each child process ended
    \* ---- tasks of the supervisor and of the request handlers ----
    pc,             \* position of each task
    stack,          \* return positions of the coroutines it is inside
    loc,            \* its local variables
    cancelReq,      \* tasks with a pending Task.cancel()
    \* ---- PX4 link (px4_control.py) ----
    px4_enabled,    \* settings ENABLE_PX4
    px4_drone,      \* PX4Controller._drone is set
    \* ---- history (not program state) ----
    landCalls,      \* px4_land() invocations so far
    evlog,          \* <<level, src, code>> of the ERROR events of the supervisor
    \* ---- session ids ----
    now,            \* the wall clock datetime.utcnow() reads, in ticks
    session_id,     \* ProcessSupervisor.session_id
    madeId,         \* history: the id each start_all call generated
    returnedId,     \* history: the id each start_all call returned
    failedAt,       \* history: the step at which each start_all call failed
    \* ---- callers of the functions checked on their own ----
    pctl,           \* what calculate_rtt_percentiles returned to each caller, oldest first
    line,           \* the stdout line handed to a parser's parse_line
    reader,         \* the role whose monitor read the line
    sent,           \* history: the values the line was made from
    parsed,         \* parse_line has returned (or raised) for the line
    parse_error,    \* parse_line raised (the caller's except logs PARSE_ERROR)
    linesRead,      \* history: lines read so far
    last_grant_event_time, \* AirParser.last_grant_event_time, in ticks
    monitor_ended,  \* the roles whose monitor has left its read loop
    last_event_time, \* RelayParser.last_event_time, in ticks
    applied,        \* history: the rule parse_line applied to the line
    grantTimes,     \* history: the clock at each INFO GRANT event, oldest first
    corpus,         \* which lines the role processes write
    \* ---- the broadcast hook ----
    ws_broadcast,   \* SharedState.ws_broadcast: "none", or the kind of callable set
    hookLog,        \* history: the calls of the hook, oldest first
    \* ---- the rest of SharedState ----
    process_pids,   \* SharedState.process_pids: process name -> pid or None
    recent,         \* what get_recent_events last returned to each caller
    \* ---- the drone-control callback ----
    px4_connected,  \* PX4Controller._status.connected
    px4_last,       \* watch_connection's local last: "none", "up" or "down"
    linkEvents,     \* history: connection_state items the watcher has seen
    cbTasks,        \* calls of _on_px4_status whose tasks have not run, oldest first
    px4Emitted,     \* history: phase -> calls of _on_px4_status
    px4Logged,      \* history: phase -> INFO PX4 events appended by _log
    exitEvents,     \* history: monitor -> the exit events it has recorded
    cancelledReading \* history: the monitors that CancelledError reached at readline

storeVars == <<status, telemetry, events, errors, rtt_samples, session, lock,
               spc, sloc, snap>>
histVars == <<nextId, appendedAll, appendedErr, telHist, swaps, lastSwapNew, opsStarted>>
\* what only the store specification moves
storeOnlyVars == <<telemetry, events, errors, rtt_samples, lock, spc, sloc, snap, histVars>>
procVars == <<processes, procState, exitCtx>>
osVars == <<procState, exitCtx>>
taskVars == <<pc, stack, loc, cancelReq, monitor_tasks>>
px4Vars == <<px4_enabled, px4_drone, landCalls>>
sessionIdVars == <<now, session_id, madeId, returnedId>>
runVars == <<sessionIdVars, failedAt>>
parseVars == <<line, reader, sent, parsed, parse_error, linesRead, last_grant_event_time,
               monitor_ended, last_event_time, applied, grantTimes, corpus>>
hookVars == <<ws_broadcast, hookLog>>
cbVars == <<px4_connected, px4_last, linkEvents, cbTasks, px4Emitted, px4Logged>>
pidVars == <<process_pids, recent>>
fnOther == <<pctl, parseVars, hookVars, pidVars>>
fnVars == <<fnOther, cbVars>>
\* the supervisor's own variables
monHist == <<exitEvents, cancelledReading>>
supOwnVars == <<shutting_down, procVars, socat_installed, exits, taskVars, px4Vars, evlog,
               runVars, monHist>>
supVars == <<shutting_down, procVars, socat_installed, fnVars, exits, taskVars, px4Vars, evlog,
             runVars, monHist>>
vars == <<storeVars, running, histVars, supVars>>
\* what the supervisor specifications leave alone
storeData == <<telemetry, events, errors, rtt_samples>>
restBase == <<socat_installed, fnOther, lock, spc, sloc, snap, histVars>>
restNoCb == <<restBase, monHist>>
restNoRun == <<restNoCb, cbVars>>
restVars == <<restNoRun, runVars>>

(***************************************************************************)
(* Sequences                                                               *)
(***************************************************************************)
Last(s) == s[Len(s)]

\* the n most recent elements of s, oldest first
LastN(s, n) == IF Len(s) <= n THEN s ELSE SubSeq(s, Len(s) - n + 1, Len(s))

\* collections.deque(maxlen=n).append(x): a full deque drops its oldest element
DequeAppendDropsNewest(q, x, n) == IF Len(q) >= n THEN q ELSE Append(q, x)
DequeAppend(q, x, n) == IF Len(q) >= n THEN Append(Tail(q), x) ELSE Append(q, x)

(***************************************************************************)
(* SharedState: data                                                       *)
(***************************************************************************)
\* The telemetry vocabulary is represented by four keys, one of each kind the
\* code treats differently: a number that feeds the RTT buffer, a flag, a key
\* that only the constructor's default map holds (gps_lat_deg), and a key that
\* only start_session's reset map holds (laser_commanded_w).
\* a Python bool held in the telemetry map
PyBool(b) == [type |-> "bool", v |-> b]

DefaultTelemetry ==
    [rtt_ms |-> 0, granted |-> PyBool(FALSE), gps_lat_deg |-> "None"]

SessionTelemetry ==
    [rtt_ms |-> 0, granted |-> PyBool(FALSE), laser_commanded_w |-> 0]

\* dict.update(data): shallow overwrite per key, other keys kept
DictUpdate(t, d) ==
    [k \in (DOMAIN t) \cup (DOMAIN d) |-> IF k \in DOMAIN d THEN d[k] ELSE t[k]]

\* the partial updates callers pass to update_telemetry
TelemetryInputs ==
    { [rtt_ms |-> 5],
      [rtt_ms |-> 0, granted |-> PyBool(TRUE)],
      [granted |-> PyBool(TRUE), gps_lat_deg |-> "47N"] }

\* the event dict built in add_event; id stands for the identity of the dict
\* object (the same object is appended to both deques)
Event(id, level, src, code, msg) ==
    [id |-> id, level |-> level, src |-> src, code |-> code, msg |-> msg]

StatusChangeMsg(old, new) == <<"Status changed from", old, "to", new>>

\* the levels add_event copies into the error buffer
ErrorLevelsOnlyError == {"ERROR"}
ErrorLevels == {"ERROR", "WARN"}


(***************************************************************************)
(* SharedState: the operations, one action per statement-level step        *)
(***************************************************************************)
StoreCallers == {"c1", "c2"}

NoData == [rtt_ms |-> 0]
NoLocals ==
    [level |-> "INFO", src |-> "", code |-> "", msg |-> <<>>, event |-> Event(0, "INFO", "", "", <<>>),
     new_status |-> "", old_status |-> "", data |-> NoData, session_id |-> "", began |-> 0,
     count |-> 0, process_name |-> "", pid |-> None]
NoSnapshot ==
    [set |-> FALSE, alias |-> FALSE, val |-> DefaultTelemetry, idx |-> 0, began |-> 0]

\* a step of task t can be taken when the loop is free or t is mid-run
CanRun(t) == running = None \/ running = t

LockLabels == {"ae_lock", "ss_lock", "ut_lock", "ul_lock", "gs_lock", "st_lock",
               "ge_lock", "sp_lock"}
UnlockLabels == {"ae_unlock", "ss_unlock", "ut_unlock", "ul_unlock", "gs_unlock", "st_unlock",
                 "ge_unlock", "sp_unlock"}

\* a lock whose acquire always hands the loop to the other tasks first
AcquireLockYields(c) ==
    /\ spc[c] \in LockLabels
    /\ CanRun(c)
    /\ IF lock = None /\ running = None
         THEN /\ lock' = c
              /\ spc' = [spc EXCEPT ![c] =
                    CASE spc[c] = "ae_lock" -> "ae_body"
                      [] spc[c] = "ss_lock" -> "ss_body"
                      [] spc[c] = "ut_lock" -> "ut_body"
                      [] spc[c] = "ul_lock" -> "ul_body"
                      [] spc[c] = "gs_lock" -> "gs_body"
                      [] spc[c] = "st_lock" -> "st_body"
                      [] spc[c] = "ge_lock" -> "ge_body"
                      [] spc[c] = "sp_lock" -> "sp_body"]
              /\ running' = c
         ELSE /\ running = c
              /\ running' = None
              /\ UNCHANGED <<lock, spc>>
    /\ UNCHANGED <<status, telemetry, events, errors, rtt_samples, session, sloc, snap, histVars>>
    /\ UNCHANGED supVars

\* lock = await self._ensure_lock(); async with lock:   (entry)
\* asyncio.Lock.acquire returns at once when the lock is free and suspends the
\* task otherwise.
AcquireLock(c) ==
    /\ spc[c] \in LockLabels
    /\ CanRun(c)
    /\ IF lock = None
         THEN /\ lock' = c
              /\ spc' = [spc EXCEPT ![c] =
                    CASE spc[c] = "ae_lock" -> "ae_body"
                      [] spc[c] = "ss_lock" -> "ss_body"
                      [] spc[c] = "ut_lock" -> "ut_body"
                      [] spc[c] = "ul_lock" -> "ul_body"
                      [] spc[c] = "gs_lock" -> "gs_body"
                      [] spc[c] = "st_lock" -> "st_body"
                      [] spc[c] = "ge_lock" -> "ge_body"
                      [] spc[c] = "sp_lock" -> "sp_body"]
              /\ running' = c
         ELSE /\ running = c
              /\ running' = None
              /\ UNCHANGED <<lock, spc>>
    /\ UNCHANGED <<status, telemetry, events, errors, rtt_samples, session, sloc, snap, histVars>>
    /\ UNCHANGED supVars

\* ---- add_event(level, src, code, msg) : state.py 158-176 ----
call_add_event(c, level) ==
    /\ spc[c] = "idle"
    /\ CanRun(c)
    /\ opsStarted < MaxOps
    /\ opsStarted' = opsStarted + 1
    /\ sloc' = [sloc EXCEPT ![c] = [NoLocals EXCEPT !.level = level, !.src = "air",
                                       !.code = "EVT", !.msg = <<"text">>]]
    /\ spc' = [spc EXCEPT ![c] = "ae_lock"]
    /\ running' = c
    /\ UNCHANGED <<status, telemetry, events, errors, rtt_samples, session, lock, snap,
                   nextId, appendedAll, appendedErr, telHist, swaps, lastSwapNew>>
    /\ UNCHANGED supVars

\* the critical section of add_event: pure part
add_event_events(evs, e) == DequeAppend(evs, e, EVENTS_MAXLEN)
add_event_errorsOnlyError(errs, e) ==
    IF e.level \in ErrorLevelsOnlyError THEN DequeAppend(errs, e, ERRORS_MAXLEN) ELSE errs
add_event_errors(errs, e) ==
    IF e.level \in ErrorLevels THEN DequeAppend(errs, e, ERRORS_MAXLEN) ELSE errs

add_event_body(c) ==
    /\ spc[c] = "ae_body"
    /\ running = c
    /\ LET e == Event(nextId, sloc[c].level, sloc[c].src, sloc[c].code, sloc[c].msg)
       IN /\ events' = add_event_events(events, e)
          /\ errors' = add_event_errors(errors, e)
          /\ appendedAll' = Append(appendedAll, e)
          /\ appendedErr' = IF e.level \in ErrorLevels
                              THEN Append(appendedErr, e) ELSE appendedErr
          /\ sloc' = [sloc EXCEPT ![c].event = e]
    /\ nextId' = nextId + 1
    /\ spc' = [spc EXCEPT ![c] = "ae_unlock"]
    /\ UNCHANGED <<status, telemetry, rtt_samples, session, lock, snap, running,
                   telHist, swaps, lastSwapNew, opsStarted>>
    /\ UNCHANGED supVars

\* the call of the hook: what add_event holds and has recorded when it calls
HookCall(c, raised) ==
    [id |-> sloc[c].event.id, lock |-> lock, raised |-> raised,
     recorded |-> \E i \in DOMAIN events : events[i] = sloc[c].event]

\* a hook whose exception leaves add_event
add_event_hook_raise_propagates(c) ==
    /\ spc[c] = "ae_hook"
    /\ running = c
    /\ hookLog' = IF ws_broadcast = "none" THEN hookLog
                  ELSE Append(hookLog, HookCall(c, ws_broadcast = "raises"))
    /\ spc' = [spc EXCEPT ![c] = IF ws_broadcast = "raises" THEN "raised" ELSE "idle"]
    /\ sloc' = [sloc EXCEPT ![c] = NoLocals]
    /\ running' = None
    /\ UNCHANGED <<status, telemetry, events, errors, rtt_samples, session, lock, snap, histVars>>
    /\ UNCHANGED <<supOwnVars, pctl, parseVars, ws_broadcast, pidVars, cbVars>>

\* if self.ws_broadcast: try: self.ws_broadcast(...) except Exception: print
\* The hook runs after the lock is released and changes nothing in the store;
\* its exception is printed and add_event returns.
add_event_hook(c) ==
    /\ spc[c] = "ae_hook"
    /\ running = c
    /\ hookLog' = IF ws_broadcast = "none" THEN hookLog
                  ELSE Append(hookLog, HookCall(c, ws_broadcast = "raises"))
    /\ spc' = [spc EXCEPT ![c] = "idle"]
    /\ sloc' = [sloc EXCEPT ![c] = NoLocals]
    /\ running' = None
    /\ UNCHANGED <<status, telemetry, events, errors, rtt_samples, session, lock, snap, histVars>>
    /\ UNCHANGED <<supOwnVars, pctl, parseVars, ws_broadcast, pidVars, cbVars>>

\* ---- set_status(new_status) : state.py 183-188 ----
call_set_status(c, new) ==
    /\ spc[c] = "idle"
    /\ CanRun(c)
    /\ opsStarted < MaxOps
    /\ opsStarted' = opsStarted + 1
    /\ sloc' = [sloc EXCEPT ![c] = [NoLocals EXCEPT !.new_status = new]]
    /\ spc' = [spc EXCEPT ![c] = "ss_lock"]
    /\ running' = c
    /\ UNCHANGED <<status, telemetry, events, errors, rtt_samples, session, lock, snap,
                   nextId, appendedAll, appendedErr, telHist, swaps, lastSwapNew>>
    /\ UNCHANGED supVars

set_status_body(c) ==
    /\ spc[c] = "ss_body"
    /\ running = c
    /\ sloc' = [sloc EXCEPT ![c].old_status = status]
    /\ status' = sloc[c].new_status
    /\ swaps' = Append(swaps, <<status, sloc[c].new_status>>)
    /\ lastSwapNew' = sloc[c].new_status
    /\ spc' = [spc EXCEPT ![c] = "ss_unlock"]
    /\ UNCHANGED <<telemetry, events, errors, rtt_samples, session, lock, snap, running,
                   nextId, appendedAll, appendedErr, telHist, opsStarted>>
    /\ UNCHANGED supVars

\* the add_event call that ends set_status (made after the lock is released):
\* does it happen, and with which arguments
set_status_event_skips_same(old, new) ==
    IF old = new THEN [emit |-> FALSE, level |-> "INFO", src |-> "server", code |-> "STATUS_CHANGE",
                       msg |-> StatusChangeMsg(old, new)]
    ELSE [emit |-> TRUE, level |-> "INFO", src |-> "server", code |-> "STATUS_CHANGE",
          msg |-> StatusChangeMsg(old, new)]
set_status_event(old, new) ==
    [emit |-> TRUE, level |-> "INFO", src |-> "server", code |-> "STATUS_CHANGE",
     msg |-> StatusChangeMsg(old, new)]

\* ---- update_telemetry(data) : state.py 84-90 ----
call_update_telemetry(c, data) ==
    /\ spc[c] = "idle"
    /\ CanRun(c)
    /\ opsStarted < MaxOps
    /\ opsStarted' = opsStarted + 1
    /\ sloc' = [sloc EXCEPT ![c] = [NoLocals EXCEPT !.data = data]]
    /\ spc' = [spc EXCEPT ![c] = "ut_lock"]
    /\ running' = c
    /\ UNCHANGED <<status, telemetry, events, errors, rtt_samples, session, lock, snap,
                   nextId, appendedAll, appendedErr, telHist, swaps, lastSwapNew>>
    /\ UNCHANGED supVars

\* an append for every update that carries rtt_ms, whatever its value
update_telemetry_rtt_any(samples, data) ==
    IF "rtt_ms" \in DOMAIN data
      THEN DequeAppend(samples, data.rtt_ms, RTT_MAXLEN)
      ELSE samples

\* 89-90: if "rtt_ms" in data and data["rtt_ms"] > 0: rtt_samples.append(...)
update_telemetry_rtt(samples, data) ==
    IF "rtt_ms" \in DOMAIN data /\ data.rtt_ms > 0
      THEN DequeAppend(samples, data.rtt_ms, RTT_MAXLEN)
      ELSE samples

update_telemetry_body(c) ==
    /\ spc[c] = "ut_body"
    /\ running = c
    /\ telemetry' = DictUpdate(telemetry, sloc[c].data)
    /\ rtt_samples' = update_telemetry_rtt(rtt_samples, sloc[c].data)
    /\ telHist' = Append(telHist, telemetry')
    /\ spc' = [spc EXCEPT ![c] = "ut_unlock"]
    /\ UNCHANGED <<status, events, errors, session, lock, sloc, snap, running,
                   nextId, appendedAll, appendedErr, swaps, lastSwapNew, opsStarted>>
    /\ UNCHANGED supVars

\* ---- update_laser_telemetry(laser_data) : state.py 92-120 ----
\* the laser poller's merge: every laser_* key is written, from laser_data or
\* from the default of laser_data.get
LaserInputs == { [commanded_w |-> 7], [connected |-> TRUE] }

call_update_laser_telemetry(c, data) ==
    /\ spc[c] = "idle"
    /\ CanRun(c)
    /\ opsStarted < MaxOps
    /\ opsStarted' = opsStarted + 1
    /\ sloc' = [sloc EXCEPT ![c] = [NoLocals EXCEPT !.data = data]]
    /\ spc' = [spc EXCEPT ![c] = "ul_lock"]
    /\ running' = c
    /\ UNCHANGED <<status, telemetry, events, errors, rtt_samples, session, lock, snap,
                   nextId, appendedAll, appendedErr, telHist, swaps, lastSwapNew>>
    /\ UNCHANGED supVars

update_laser_telemetry_body(c) ==
    /\ spc[c] = "ul_body"
    /\ running = c
    /\ LET d == sloc[c].data
       IN telemetry' = DictUpdate(telemetry,
              [laser_commanded_w |-> IF "commanded_w" \in DOMAIN d THEN d.commanded_w ELSE 0])
    /\ telHist' = Append(telHist, telemetry')
    /\ spc' = [spc EXCEPT ![c] = "ul_unlock"]
    /\ UNCHANGED <<status, events, errors, rtt_samples, session, lock, sloc, snap, running,
                   nextId, appendedAll, appendedErr, swaps, lastSwapNew, opsStarted>>
    /\ UNCHANGED supVars

\* ---- get_telemetry_snapshot() : state.py 153-156 ----
call_get_telemetry_snapshot(c) ==
    /\ spc[c] = "idle"
    /\ CanRun(c)
    /\ opsStarted < MaxOps
    /\ opsStarted' = opsStarted + 1
    /\ sloc' = [sloc EXCEPT ![c] = [NoLocals EXCEPT !.began = Len(telHist)]]
    /\ spc' = [spc EXCEPT ![c] = "gs_lock"]
    /\ running' = c
    /\ UNCHANGED <<status, telemetry, events, errors, rtt_samples, session, lock, snap,
                   nextId, appendedAll, appendedErr, telHist, swaps, lastSwapNew>>
    /\ UNCHANGED supVars

\* return self.telemetry.copy(): the caller gets its own map (alias = FALSE);
\* a returned reference to the live map would be alias = TRUE
get_telemetry_snapshot_noCopy(t) == [alias |-> TRUE, val |-> t]
get_telemetry_snapshot(t) == [alias |-> FALSE, val |-> t]

\* what the holder of a returned snapshot reads in it now
SnapView(s) == IF s.alias THEN telemetry ELSE s.val

get_telemetry_snapshot_body(c) ==
    /\ spc[c] = "gs_body"
    /\ running = c
    /\ LET r == get_telemetry_snapshot(telemetry)
       IN snap' = [snap EXCEPT ![c] = [set |-> TRUE, alias |-> r.alias, val |-> r.val,
                                       idx |-> Len(telHist), began |-> sloc[c].began]]
    /\ spc' = [spc EXCEPT ![c] = "gs_unlock"]
    /\ UNCHANGED <<status, telemetry, events, errors, rtt_samples, session, lock, sloc, running,
                   histVars>>
    /\ UNCHANGED supVars

\* ---- start_session(session_id, scenario, params) : state.py 122-147 ----
SessionInputs == {"s1"}

call_start_session(c, sid) ==
    /\ spc[c] = "idle"
    /\ CanRun(c)
    /\ opsStarted < MaxOps
    /\ opsStarted' = opsStarted + 1
    /\ sloc' = [sloc EXCEPT ![c] = [NoLocals EXCEPT !.session_id = sid]]
    /\ spc' = [spc EXCEPT ![c] = "st_lock"]
    /\ running' = c
    /\ UNCHANGED <<status, telemetry, events, errors, rtt_samples, session, lock, snap,
                   nextId, appendedAll, appendedErr, telHist, swaps, lastSwapNew>>
    /\ UNCHANGED supVars

start_session_body(c) ==
    /\ spc[c] = "st_body"
    /\ running = c
    /\ session' = sloc[c].session_id
    /\ telemetry' = SessionTelemetry
    /\ events' = <<>>
    /\ rtt_samples' = <<>>
    /\ errors' = <<>>
    /\ appendedAll' = <<>>
    /\ appendedErr' = <<>>
    /\ swaps' = <<>>
    /\ telHist' = Append(telHist, telemetry')
    /\ spc' = [spc EXCEPT ![c] = "st_unlock"]
    /\ UNCHANGED <<status, lock, sloc, snap, running, nextId, lastSwapNew, opsStarted>>
    /\ UNCHANGED supVars

\* ---- get_recent_events(count) : state.py 178-181 ----
\* the count the REST handler passes, and one shorter than a buffer in use
RecentCounts == {50, 1}

call_get_recent_events(c, count) ==
    /\ spc[c] = "idle"
    /\ CanRun(c)
    /\ opsStarted < MaxOps
    /\ opsStarted' = opsStarted + 1
    /\ sloc' = [sloc EXCEPT ![c] = [NoLocals EXCEPT !.count = count]]
    /\ spc' = [spc EXCEPT ![c] = "ge_lock"]
    /\ running' = c
    /\ UNCHANGED <<status, telemetry, events, errors, rtt_samples, session, lock, snap,
                   nextId, appendedAll, appendedErr, telHist, swaps, lastSwapNew>>
    /\ UNCHANGED supVars

get_recent_events_body(c) ==
    /\ spc[c] = "ge_body"
    /\ running = c
    \* list(self.events)[-count:]
    /\ recent' = [recent EXCEPT ![c] = LastN(events, sloc[c].count)]
    /\ spc' = [spc EXCEPT ![c] = "ge_unlock"]
    /\ UNCHANGED <<status, telemetry, events, errors, rtt_samples, session, lock, sloc, snap,
                   running, histVars>>
    /\ UNCHANGED <<supOwnVars, pctl, parseVars, hookVars, process_pids, cbVars>>

\* ---- set_process_pid(process_name, pid) : state.py 190-193 ----
PidNames == {"ground", "air"}
PidInputs == {"4321", None}

call_set_process_pid(c, name, pid) ==
    /\ spc[c] = "idle"
    /\ CanRun(c)
    /\ opsStarted < MaxOps
    /\ opsStarted' = opsStarted + 1
    /\ sloc' = [sloc EXCEPT ![c] = [NoLocals EXCEPT !.process_name = name, !.pid = pid]]
    /\ spc' = [spc EXCEPT ![c] = "sp_lock"]
    /\ running' = c
    /\ UNCHANGED <<status, telemetry, events, errors, rtt_samples, session, lock, snap,
                   nextId, appendedAll, appendedErr, telHist, swaps, lastSwapNew>>
    /\ UNCHANGED supVars

set_process_pid_body(c) ==
    /\ spc[c] = "sp_body"
    /\ running = c
    /\ process_pids' = [process_pids EXCEPT ![sloc[c].process_name] = sloc[c].pid]
    /\ spc' = [spc EXCEPT ![c] = "sp_unlock"]
    /\ UNCHANGED <<status, telemetry, events, errors, rtt_samples, session, lock, sloc, snap,
                   running, histVars>>
    /\ UNCHANGED <<supOwnVars, pctl, parseVars, hookVars, recent, cbVars>>

\* set_status with its add_event call moved inside the async with block
ReleaseLockNested(c) ==
    /\ spc[c] \in UnlockLabels
    /\ running = c
    /\ lock' = IF spc[c] = "ss_unlock" THEN lock ELSE None
    /\ CASE spc[c] = "ae_unlock" ->
              /\ spc' = [spc EXCEPT ![c] = "ae_hook"]
              /\ UNCHANGED <<sloc, running, opsStarted>>
         [] spc[c] = "ss_unlock" ->
              LET ev == set_status_event(sloc[c].old_status, sloc[c].new_status)
              IN /\ sloc' = [sloc EXCEPT ![c].level = ev.level, ![c].src = ev.src,
                                          ![c].code = ev.code, ![c].msg = ev.msg]
                 /\ spc' = [spc EXCEPT ![c] = "ae_lock"]
                 /\ UNCHANGED <<running, opsStarted>>
         [] OTHER ->
              /\ spc' = [spc EXCEPT ![c] = "idle"]
              /\ sloc' = [sloc EXCEPT ![c] = NoLocals]
              /\ running' = None
              /\ UNCHANGED opsStarted
    /\ UNCHANGED <<status, telemetry, events, errors, rtt_samples, session, snap,
                   nextId, appendedAll, appendedErr, telHist, swaps, lastSwapNew>>
    /\ UNCHANGED supVars

\* async with lock:   (exit), and what follows it in each operation
ReleaseLock(c) ==
    /\ spc[c] \in UnlockLabels
    /\ running = c
    /\ lock' = None
    /\ CASE spc[c] = "ae_unlock" ->
              /\ spc' = [spc EXCEPT ![c] = "ae_hook"]
              /\ UNCHANGED <<sloc, running, opsStarted>>
         [] spc[c] = "ss_unlock" ->
              \* await self.add_event("INFO", "server", "STATUS_CHANGE", ...)
              LET ev == set_status_event(sloc[c].old_status, sloc[c].new_status)
              IN IF ev.emit
                   THEN /\ sloc' = [sloc EXCEPT ![c].level = ev.level, ![c].src = ev.src,
                                                ![c].code = ev.code, ![c].msg = ev.msg]
                        /\ spc' = [spc EXCEPT ![c] = "ae_lock"]
                        /\ UNCHANGED <<running, opsStarted>>
                   ELSE /\ sloc' = [sloc EXCEPT ![c] = NoLocals]
                        /\ spc' = [spc EXCEPT ![c] = "idle"]
                        /\ running' = None
                        /\ UNCHANGED opsStarted
         [] OTHER ->
              /\ spc' = [spc EXCEPT ![c] = "idle"]
              /\ sloc' = [sloc EXCEPT ![c] = NoLocals]
              /\ running' = None
              /\ UNCHANGED opsStarted
    /\ UNCHANGED <<status, telemetry, events, errors, rtt_samples, session, snap,
                   nextId, appendedAll, appendedErr, telHist, swaps, lastSwapNew>>
    /\ UNCHANGED supVars

(***************************************************************************)
(* ProcessSupervisor: slots, child processes, tasks                        *)
(***************************************************************************)
Roles == {"ground", "air", "relay"}
Slots == Roles \cup {"socat"}

\* POST /ramp/start and POST /ramp/stop requests (each is one task)
StartReqs == {"start1", "start2"}
StopReqs == {"stop1", "stop2"}

\* the child process spawned into slot n by start request s
ProcId(n, s) == n \o "@" \o s
RoleProcs == { ProcId(r, s) : r \in Roles, s \in StartReqs }
SocatProcs == { ProcId("socat", s) : s \in StartReqs }
AllProcs == RoleProcs \cup SocatProcs
SlotOf(p) == CHOOSE n \in Slots : \E s \in StartReqs : p = ProcId(n, s)

\* one _monitor_process task per spawned role process, named after it
Monitors == RoleProcs
SupTasks == StartReqs \cup StopReqs \cup Monitors

\* trace: the signals sent and events recorded by the task's latest _stop_process
NoTaskLocals == [name |-> None, proc |-> None, polls |-> 0, gather |-> {}, trace |-> <<>>]
\* exitCtx of a process that has not ended
NoExit == [status |-> None, stopping |-> FALSE]

\* ProcessSupervisor.__init__
\* the phases PX4Controller.connect and its watcher emit
Px4Phases == {"PX4_CONNECTING", "PX4_CONNECTED", "PX4_CONNECTING_SLOW", "PX4_DISCONNECTED"}
\* nothing has been computed or parsed yet
NoLine == <<>>
fn_init_for(lines) ==
    /\ corpus = lines
    /\ last_event_time = 0
    /\ applied = "none"
    /\ grantTimes = <<>>
    /\ px4_connected = FALSE
    /\ px4_last = "none"
    /\ linkEvents = 0
    /\ cbTasks = <<>>
    /\ px4Emitted = [p \in Px4Phases |-> 0]
    /\ px4Logged = [p \in Px4Phases |-> 0]
    /\ pctl = [c \in StoreCallers |-> <<>>]
    /\ line = NoLine
    /\ reader = "ground"
    /\ sent = [rule |-> "none"]
    /\ parsed = TRUE
    /\ parse_error = FALSE
    /\ linesRead = 0
    /\ last_grant_event_time = 0
    /\ monitor_ended = {}
    /\ hookLog = <<>>
    /\ process_pids = [n \in PidNames |-> None]
    /\ recent = [c \in StoreCallers |-> <<>>]

fn_init == fn_init_for("values")

supervisor_init ==
    /\ shutting_down = FALSE
    /\ processes = [n \in Slots |-> None]
    /\ monitor_tasks = <<>>
    /\ procState = [p \in AllProcs |-> "unborn"]
    /\ exitCtx = [p \in AllProcs |-> NoExit]
    /\ exits = 0
    /\ exitEvents = [m \in Monitors |-> <<>>]
    /\ cancelledReading = {}
    /\ stack = [t \in SupTasks |-> <<>>]
    /\ loc = [t \in SupTasks |-> NoTaskLocals]
    /\ cancelReq = {}
    /\ px4_drone = FALSE
    /\ landCalls = 0
    /\ evlog = {}
    /\ now = 0
    /\ session_id = None
    /\ madeId = [s \in StartReqs |-> None]
    /\ returnedId = [s \in StartReqs |-> None]
    /\ failedAt = [s \in StartReqs |-> None]

(***************************************************************************)
(* SpecStore: the store under concurrent callers.  It starts either from   *)
(* the freshly constructed store or from a store that has already taken a  *)
(* run of add_event calls filling both buffers to one below capacity.      *)
(***************************************************************************)
PrefillEvent(i, nWarn) ==
    Event(i, IF i <= nWarn THEN "WARN" ELSE "INFO", "ground", "EVT", <<"text">>)

\* <<events appended, of which WARN (appended first)>>
Prefills == { <<0, 0>>, <<EVENTS_MAXLEN - 1, ERRORS_MAXLEN - 1>> }

StatusInputs == {"READY", "RAMPING", "SAFE"}

\* state.ws_broadcast = broadcast_func  (main.py 261); a store can also have no
\* hook, or one that raises (create_task without a running loop)
HookKinds == {"none", "ok", "raises"}

InitStoreWith(hooks) ==
    /\ status = "DISCONNECTED"
    /\ telemetry = DefaultTelemetry
    /\ \E p \in Prefills :
         /\ events = [i \in 1..p[1] |-> PrefillEvent(i, p[2])]
         /\ errors = [i \in 1..p[2] |-> PrefillEvent(i, p[2])]
         /\ nextId = p[1] + 1
    /\ appendedAll = events
    /\ appendedErr = errors
    /\ rtt_samples = <<>>
    /\ session = None
    /\ lock = None
    /\ spc = [c \in StoreCallers |-> "idle"]
    /\ sloc = [c \in StoreCallers |-> NoLocals]
    /\ snap = [c \in StoreCallers |-> NoSnapshot]
    /\ running = None
    /\ telHist = <<telemetry>>
    /\ swaps = <<>>
    /\ lastSwapNew = "DISCONNECTED"
    /\ opsStarted = 0
    /\ px4_enabled = FALSE
    /\ socat_installed = TRUE
    /\ fn_init
    /\ ws_broadcast \in hooks
    /\ supervisor_init
    /\ pc = [t \in SupTasks |-> IF t \in Monitors THEN "unborn" ELSE "absent"]

InitStore == InitStoreWith({"ok"})

StoreStep ==
    \E c \in StoreCallers :
        \/ \E l \in Levels : call_add_event(c, l)
        \/ \E s \in StatusInputs : call_set_status(c, s)
        \/ \E d \in TelemetryInputs : call_update_telemetry(c, d)
        \/ \E d \in LaserInputs : call_update_laser_telemetry(c, d)
        \/ update_laser_telemetry_body(c)
        \/ call_get_telemetry_snapshot(c)
        \/ \E sid \in SessionInputs : call_start_session(c, sid)
        \/ AcquireLock(c)
        \/ add_event_body(c)
        \/ add_event_hook(c)
        \/ set_status_body(c)
        \/ update_telemetry_body(c)
        \/ get_telemetry_snapshot_body(c)
        \/ start_session_body(c)
        \/ ReleaseLock(c)

NextStore == StoreStep

SpecStore == InitStore /\ [][NextStore]_vars

\* every operation of the store that takes the lock, under the event loop's
\* scheduling: a task that can take a step is run (asyncio runs each ready
\* task in turn, and wakes a task waiting for the lock when it is released)
LockStep ==
    \E c \in StoreCallers :
        \/ \E n \in RecentCounts : call_get_recent_events(c, n)
        \/ get_recent_events_body(c)
        \/ \E n \in PidNames, p \in PidInputs : call_set_process_pid(c, n, p)
        \/ set_process_pid_body(c)

\* the steps of an operation already called
Continue(c) ==
    \/ AcquireLock(c)
    \/ add_event_body(c)
    \/ add_event_hook(c)
    \/ set_status_body(c)
    \/ update_telemetry_body(c)
    \/ update_laser_telemetry_body(c)
    \/ get_telemetry_snapshot_body(c)
    \/ start_session_body(c)
    \/ get_recent_events_body(c)
    \/ set_process_pid_body(c)
    \/ ReleaseLock(c)

NextLock == StoreStep \/ LockStep

SpecLock == InitStore /\ [][NextLock]_vars /\ \A c \in StoreCallers : WF_vars(Continue(c))

\* the store with each kind of hook
InitHook == InitStoreWith(HookKinds)
SpecHook == InitHook /\ [][NextStore]_vars

(***************************************************************************)
(* calculate_rtt_percentiles : state.py 195-202                            *)
(***************************************************************************)
RTT_MIN_SAMPLES == 10

\* the sorted copy numpy works on: each sample goes to the position given by
\* the number of samples before it in the order (ties keep their buffer order)
SortPosition(s, i) ==
    Cardinality({ j \in DOMAIN s : s[j] < s[i] \/ (s[j] = s[i] /\ j < i) }) + 1

np_sort(s) == [k \in 1..Len(s) |-> s[CHOOSE i \in DOMAIN s : SortPosition(s, i) = k]]

\* the percentile without interpolation: the sample at the lower rank
PercentileLowerRank(samples, q) ==
    LET n == Len(samples)
        srt == np_sort(samples)
    IN  100 * srt[(((n - 1) * q) \div 100) + 1]

\* np.percentile(samples, q) with numpy's default method: the samples are
\* sorted, the virtual index is (n-1)*q/100, and the result is interpolated
\* linearly between the two samples around it.  Samples are whole
\* milliseconds; the result is in hundredths of a millisecond, which makes
\* the interpolation exact.
Percentile(samples, q) ==
    LET n == Len(samples)
        srt == np_sort(samples)
        h == (n - 1) * q
        lo == h \div 100
        hi == IF lo + 1 < n THEN lo + 1 ELSE lo
        frac == h % 100
    IN  100 * srt[lo + 1] + frac * (srt[hi + 1] - srt[lo + 1])

\* the function has no await: it runs from call to return in one run of the
\* loop, and it takes no lock
calculate_rtt_percentiles(c) ==
    /\ spc[c] = "idle"
    /\ CanRun(c)
    /\ opsStarted < MaxOps
    /\ opsStarted' = opsStarted + 1
    /\ pctl' = [pctl EXCEPT ![c] = Append(@,
                  IF Len(rtt_samples) < RTT_MIN_SAMPLES
                    THEN <<0, 0>>
                    ELSE <<Percentile(rtt_samples, 95), Percentile(rtt_samples, 99)>>)]
    /\ UNCHANGED <<storeVars, running, nextId, appendedAll, appendedErr, telHist, swaps,
                   lastSwapNew>>
    /\ UNCHANGED <<supOwnVars, parseVars, hookVars, pidVars, cbVars>>

\* buffers the store can hold when the percentiles are asked for: every
\* sample is positive (update_telemetry drops the others)
RttPrefillLens == {0, RTT_MIN_SAMPLES - 1, RTT_MIN_SAMPLES, RTT_MIN_SAMPLES + 1, RTT_MAXLEN}
RttPrefills ==
    UNION { { [i \in 1..n |-> 3 * i],
              [i \in 1..n |-> 3 * (n - i) + 1],
              [i \in 1..n |-> ((i * 37) % 101) + 1],
              [i \in 1..n |-> (i % 3) + 4] } : n \in RttPrefillLens }

InitRtt ==
    /\ status = "DISCONNECTED"
    /\ telemetry = DefaultTelemetry
    /\ events = <<>>
    /\ errors = <<>>
    /\ nextId = 1
    /\ appendedAll = <<>>
    /\ appendedErr = <<>>
    /\ rtt_samples \in RttPrefills
    /\ session = None
    /\ lock = None
    /\ spc = [c \in StoreCallers |-> "idle"]
    /\ sloc = [c \in StoreCallers |-> NoLocals]
    /\ snap = [c \in StoreCallers |-> NoSnapshot]
    /\ running = None
    /\ telHist = <<telemetry>>
    /\ swaps = <<>>
    /\ lastSwapNew = "DISCONNECTED"
    /\ opsStarted = 0
    /\ px4_enabled = FALSE
    /\ socat_installed = TRUE
    /\ fn_init
    /\ ws_broadcast = "ok"
    /\ supervisor_init
    /\ pc = [t \in SupTasks |-> IF t \in Monitors THEN "unborn" ELSE "absent"]

RttStep ==
    \E c \in StoreCallers :
        \/ \E d \in TelemetryInputs : call_update_telemetry(c, d)
        \/ \E sid \in SessionInputs : call_start_session(c, sid)
        \/ AcquireLock(c)
        \/ update_telemetry_body(c)
        \/ start_session_body(c)
        \/ ReleaseLock(c)
        \/ calculate_rtt_percentiles(c)

NextRtt == RttStep

SpecRtt == InitRtt /\ [][NextRtt]_vars


\* state.start_session as start_all calls it: the buffers and the telemetry
\* map are reset
start_session_reset ==
    /\ telemetry' = SessionTelemetry
    /\ events' = <<>>
    /\ errors' = <<>>
    /\ rtt_samples' = <<>>

(***************************************************************************)
(* ProcessSupervisor: helpers                                              *)
(***************************************************************************)
Alive(p) == procState[p] = "alive"

\* ProcessSupervisor.is_running
is_running ==
    \E r \in Roles : processes[r] # None /\ Alive(processes[r])

\* state.add_event(level, src, code, ...) as the supervisor calls it; the
\* history keeps the ERROR events
Logged(log, evs) == log \cup { e \in evs : e[1] = "ERROR" }
StatusChange == <<"INFO", "server", "STATUS_CHANGE">>

\* a step of a supervisor task: it holds the loop, or the loop is free and no
\* cancellation is waiting to be thrown into it
MidRun(t) == running = t
Resume(t) == running = None /\ t \notin cancelReq
Step(t) == MidRun(t) \/ Resume(t)

At(t, l) == pc[t] = l
Goto(t, l) == pc' = [pc EXCEPT ![t] = l]

\* `return` from the coroutine the task is suspended in
Return(t) ==
    /\ pc' = [pc EXCEPT ![t] = Head(stack[t])]
    /\ stack' = [stack EXCEPT ![t] = Tail(@)]

\* the positions stop_all returns to: start_all 321, stop_ramp 233,
\* _monitor_process 576
StopAllReturns == {"sa_raise", "sr_done", "m_after_try"}

\* task t is inside stop_all (between its first statement and its return)
InStopAll(t) == \E i \in 1..Len(stack[t]) : stack[t][i] \in StopAllReturns

\* where an exception leaving stop_all is caught
Handler(t) ==
    IF t \in StartReqs THEN "sa_stop_raised"
    ELSE IF t \in StopReqs THEN "sr_failed"
    ELSE "m_land_failed"

\* what was going on when a child process exited
ExitContext == [status |-> status, stopping |-> \E t \in SupTasks : InStopAll(t)]

(***************************************************************************)
(* Operating system: a live child process exits on its own; the loop sees  *)
(* the exit between two runs                                               *)
(***************************************************************************)
ExitCodes == {"exit0", "exitN"}

ProcExit(p, code) ==
    /\ running = None
    /\ Alive(p)
    /\ exits < MaxExits
    /\ exits' = exits + 1
    /\ procState' = [procState EXCEPT ![p] = code]
    /\ exitCtx' = [exitCtx EXCEPT ![p] = ExitContext]
    /\ UNCHANGED <<status, session, running, shutting_down, processes,
                   taskVars, px4Vars, evlog>>
    /\ UNCHANGED <<storeData, restVars>>

\* the wall clock moves on while the loop is between two runs
Tick ==
    /\ running = None
    /\ now < MaxTime
    /\ now' = now + 1
    /\ UNCHANGED <<storeVars, running, histVars, shutting_down, procVars, socat_installed,
                   fnVars, exits, taskVars, px4Vars, evlog, session_id, madeId, returnedId,
                   failedAt, monHist>>

(***************************************************************************)
(* _stop_process(name)   (stop_ground / stop_air / stop_relay)             *)
(***************************************************************************)
\* 637-648, run by the caller's `await`: empty slot -> return; exited ->
\* clear the slot, return; else SIGTERM the group and enter the poll loop.
\* ret is where the caller goes on after the return.
_stop_process_begin(t, name, ret) ==
    LET proc == processes[name]
    IN IF proc = None
         THEN /\ Goto(t, ret)
              /\ loc' = [loc EXCEPT ![t].trace = <<>>]
              /\ UNCHANGED <<processes, stack>>
       ELSE IF ~Alive(proc)
         THEN /\ processes' = [processes EXCEPT ![name] = None]
              /\ Goto(t, ret)
              /\ loc' = [loc EXCEPT ![t].trace = <<>>]
              /\ UNCHANGED stack
       ELSE /\ loc' = [loc EXCEPT ![t] = [name |-> name, proc |-> proc, polls |-> 0,
                                          gather |-> {}, trace |-> <<"SIGTERM">>]]
            /\ pc' = [pc EXCEPT ![t] = "sp_poll"]
            /\ stack' = [stack EXCEPT ![t] = <<ret>> \o @]
            /\ UNCHANGED processes

\* 651-661: one turn of the poll loop: exited -> PROCESS_STOP, clear the
\* slot, return; else sleep(0.1)
_stop_process_poll(t) ==
    /\ At(t, "sp_poll") /\ Step(t)
    /\ LET name == loc[t].name
           proc == loc[t].proc
       IN IF ~Alive(proc)
            THEN /\ evlog' = Logged(evlog, {<<"INFO", name, "PROCESS_STOP">>})
                 /\ processes' = [processes EXCEPT ![name] = None]
                 /\ Return(t)
                 /\ running' = t
                 /\ loc' = [loc EXCEPT ![t] =
                              [NoTaskLocals EXCEPT !.trace = Append(loc[t].trace, "PROCESS_STOP")]]
            ELSE /\ loc' = [loc EXCEPT ![t].polls = @ + 1]
                 /\ Goto(t, IF loc[t].polls + 1 >= StopPolls THEN "sp_kill" ELSE "sp_poll")
                 /\ running' = None
                 /\ UNCHANGED <<evlog, processes, stack>>
    /\ UNCHANGED <<status, session, shutting_down, osVars, cancelReq,
                   monitor_tasks, px4Vars>>
    /\ UNCHANGED <<storeData, exits, restVars>>

\* 663-680: SIGKILL the group and warn; a group that is already gone raises
\* ProcessLookupError (passed over); finally: clear the slot
_stop_process_kill(t) ==
    /\ At(t, "sp_kill") /\ Resume(t)
    /\ LET name == loc[t].name
           proc == loc[t].proc
       IN /\ IF Alive(proc)
               THEN /\ procState' = [procState EXCEPT ![proc] = "exitN"]
                    /\ exitCtx' = [exitCtx EXCEPT ![proc] = ExitContext]
               ELSE UNCHANGED osVars
          /\ \E lookup_error \in BOOLEAN :
               IF ~Alive(proc) /\ lookup_error
                 THEN /\ evlog' = evlog
                      /\ loc' = [loc EXCEPT ![t] =
                                   [NoTaskLocals EXCEPT !.trace = loc[t].trace]]
                 ELSE /\ evlog' = Logged(evlog, {<<"WARN", name, "PROCESS_KILL">>})
                      /\ loc' = [loc EXCEPT ![t] =
                                   [NoTaskLocals EXCEPT !.trace =
                                       loc[t].trace \o <<"SIGKILL", "PROCESS_KILL">>]]
          /\ processes' = [processes EXCEPT ![name] = None]
    /\ Return(t)
    /\ running' = t
    /\ UNCHANGED <<status, session, shutting_down, cancelReq, monitor_tasks, px4Vars>>
    /\ UNCHANGED <<storeData, exits, restVars>>

(***************************************************************************)
(* _stop_virtual_elrs_link                                                 *)
(***************************************************************************)
\* 243-249, run by the caller's `await`: no bridge -> return; alive ->
\* SIGTERM and poll; exited -> SOCAT_STOP and the finally
_stop_virtual_elrs_link_begin(t, ret) ==
    LET proc == processes["socat"]
    IN IF proc = None
         THEN /\ Goto(t, ret)
              /\ UNCHANGED <<processes, stack, loc, evlog>>
       ELSE IF ~Alive(proc)
         THEN /\ evlog' = Logged(evlog, {<<"INFO", "server", "SOCAT_STOP">>})
              /\ processes' = [processes EXCEPT !["socat"] = None]
              /\ Goto(t, ret)
              /\ UNCHANGED <<stack, loc>>
       ELSE /\ loc' = [loc EXCEPT ![t] = [name |-> "socat", proc |-> proc, polls |-> 0,
                                          trace |-> <<>>,
                                          gather |-> {}]]
            /\ pc' = [pc EXCEPT ![t] = "sv_poll"]
            /\ stack' = [stack EXCEPT ![t] = <<ret>> \o @]
            /\ UNCHANGED <<processes, evlog>>

\* 250-264: poll loop; after the last sleep SIGKILL if still alive;
\* SOCAT_STOP; finally: clear the slot
_stop_virtual_elrs_link_poll(t) ==
    /\ At(t, "sv_poll") /\ Step(t)
    /\ LET proc == loc[t].proc
       IN IF Alive(proc) /\ loc[t].polls < StopPolls
            THEN /\ loc' = [loc EXCEPT ![t].polls = @ + 1]
                 /\ running' = None
                 /\ UNCHANGED <<pc, stack, evlog, processes, osVars>>
            ELSE /\ IF Alive(proc)
                      THEN /\ procState' = [procState EXCEPT ![proc] = "exitN"]
                           /\ exitCtx' = [exitCtx EXCEPT ![proc] = ExitContext]
                      ELSE UNCHANGED osVars
                 /\ evlog' = Logged(evlog, {<<"INFO", "server", "SOCAT_STOP">>})
                 /\ processes' = [processes EXCEPT !["socat"] = None]
                 /\ Return(t)
                 /\ running' = t
                 /\ loc' = [loc EXCEPT ![t] = NoTaskLocals]
    /\ UNCHANGED <<status, session, shutting_down, cancelReq, monitor_tasks, px4Vars>>
    /\ UNCHANGED <<storeData, exits, restVars>>

(***************************************************************************)
(* stop_all                                                                *)
(***************************************************************************)
\* 692-703, run by the caller's `await`: flag up, STOPPING,
\* px4_offboard_stop (suspends only with a PX4); ret is where the caller
\* goes on after the return
stop_all_begin(t, ret) ==
    /\ shutting_down' = TRUE
    /\ status' = "STOPPING"
    /\ pc' = [pc EXCEPT ![t] = "so_stop_ground"]
    /\ stack' = [stack EXCEPT ![t] = <<ret>>]
    /\ running' = IF px4_enabled THEN None ELSE t

AfterStop(r) ==
    IF r = "ground" THEN "so_stop_air" ELSE IF r = "air" THEN "so_stop_relay" ELSE "so_stop_link"

\* 706-708: await stop_ground(); await stop_air(); await stop_relay()
stop_all_stop(t, r) ==
    /\ At(t, "so_stop_" \o r) /\ Step(t)
    /\ _stop_process_begin(t, r, AfterStop(r))
    /\ running' = t
    /\ UNCHANGED <<status, session, shutting_down, osVars, cancelReq, monitor_tasks,
                   px4Vars, evlog>>
    /\ UNCHANGED <<storeData, exits, restVars>>

\* 709: await _stop_virtual_elrs_link()
stop_all_stop_link(t) ==
    /\ At(t, "so_stop_link") /\ MidRun(t)
    /\ _stop_virtual_elrs_link_begin(t, "so_cancel")
    /\ UNCHANGED <<status, session, running, shutting_down, osVars, cancelReq,
                   monitor_tasks, px4Vars>>
    /\ UNCHANGED <<storeData, exits, restVars>>

Min(S) == CHOOSE x \in S : \A y \in S : x <= y

\* 713-722: cancel every tracked monitor task in list order, then gather
\* them.  Task.cancel() on a task that is blocked on a gather of itself raises
\* RecursionError out of the loop; a caller that is itself in the list ends
\* up awaiting its own completion.  An empty gather is complete at once, and
\* stop_all goes on to clear the list and sleep(0.5).
stop_all_cancel(t) ==
    /\ At(t, "so_cancel") /\ MidRun(t)
    /\ LET list == monitor_tasks
           blockedAt == { i \in 1..Len(list) : pc[list[i]] = "stuck" }
           upto == IF blockedAt = {} THEN Len(list) ELSE Min(blockedAt) - 1
           hit == { list[i] : i \in 1..upto }
           pending == { m \in hit : pc[m] # "done" }
       IN IF blockedAt # {}
            THEN /\ cancelReq' = cancelReq \cup pending
                 /\ pc' = [pc EXCEPT ![t] = Handler(t)]
                 /\ stack' = [stack EXCEPT ![t] = <<>>]
                 /\ UNCHANGED <<running, loc, monitor_tasks>>
          ELSE IF t \in hit
            THEN /\ cancelReq' = (cancelReq \cup pending) \ {t}
                 /\ Goto(t, "stuck")
                 /\ running' = None
                 /\ UNCHANGED <<stack, loc, monitor_tasks>>
          ELSE IF list = <<>>
            THEN /\ Goto(t, "so_pkill")
                 /\ running' = None
                 /\ UNCHANGED <<cancelReq, stack, loc, monitor_tasks>>
          ELSE /\ cancelReq' = cancelReq \cup pending
               /\ loc' = [loc EXCEPT ![t].gather = hit]
               /\ Goto(t, "so_gather")
               /\ running' = None
               /\ UNCHANGED <<stack, monitor_tasks>>
    /\ UNCHANGED <<status, session, shutting_down, procVars, px4Vars, evlog>>
    /\ UNCHANGED <<storeData, exits, restVars>>

\* 717-722: the gather completes when every gathered task is done; then
\* _monitor_tasks.clear() and sleep(0.5)
stop_all_gather(t) ==
    /\ At(t, "so_gather") /\ Resume(t)
    /\ \A m \in loc[t].gather : pc[m] = "done"
    /\ monitor_tasks' = <<>>
    /\ loc' = [loc EXCEPT ![t] = NoTaskLocals]
    /\ Goto(t, "so_pkill")
    /\ UNCHANGED <<status, session, running, shutting_down, procVars, stack, cancelReq,
                   px4Vars, evlog>>
    /\ UNCHANGED <<storeData, exits, restVars>>

\* stop_all without its set_status("READY")
stop_all_finish_without_ready(t) ==
    /\ At(t, "so_pkill") /\ Resume(t)
    /\ shutting_down' = FALSE
    /\ Return(t)
    /\ running' = t
    /\ UNCHANGED <<status, evlog, session, procVars, loc, cancelReq, monitor_tasks, px4Vars>>
    /\ UNCHANGED <<storeData, exits, restVars>>

\* 723-734: pkill -f by script name, READY, flag down, return
stop_all_finish(t) ==
    /\ At(t, "so_pkill") /\ Resume(t)
    /\ status' = "READY"
    /\ evlog' = Logged(evlog, {StatusChange})
    /\ shutting_down' = FALSE
    /\ Return(t)
    /\ running' = t
    /\ UNCHANGED <<session, procVars, loc, cancelReq, monitor_tasks, px4Vars>>
    /\ UNCHANGED <<storeData, exits, restVars>>

(***************************************************************************)
(* POST /ramp/start  (main.py start_ramp)  and  start_all                  *)
(***************************************************************************)
\* main.py 209-214: reject when supervisor.is_running(), else start_all.
\* start_all 276, _cleanup_old_processes: SIGTERM everything pgrep finds by
\* script name, sleep(1.5) if anything was found; `stale` stands for a
\* matching process this supervisor did not spawn
start_ramp(s) ==
    /\ At(s, "idle") /\ Resume(s)
    /\ IF is_running
         THEN /\ Goto(s, "rejected")
              /\ UNCHANGED running
         ELSE \E stale \in BOOLEAN :
                LET killed_any == stale \/ \E p \in RoleProcs : Alive(p)
                IN /\ Goto(s, "sa_session")
                   /\ running' = IF killed_any THEN None ELSE s
    /\ UNCHANGED <<status, session, shutting_down, procVars, stack, loc, cancelReq,
                   monitor_tasks, px4Vars, evlog>>
    /\ UNCHANGED <<storeData, exits, restVars>>

\* datetime.utcnow().strftime("%Y%m%d_%H%M%S"): the clock cut to whole seconds
SessionId(t) == "session_" \o ToString(t \div TicksPerSecond)

\* ---- the drone-control callback : supervisor.py 162-187 ----
\* what one call of _on_px4_status(phase, kv) leaves to be run: the tasks
\* set_status("READY") for PX4_CONNECTED or set_status("SAFE") for
\* PX4_DISCONNECTED, and _log(). They are made one after the other and neither
\* suspends (the store lock is free between steps), so they run back to back:
\* one entry stands for both. at: the status when the callback was called
StatusOfPhase(phase) ==
    IF phase = "PX4_CONNECTED" THEN "READY"
    ELSE IF phase = "PX4_DISCONNECTED" THEN "SAFE"
    ELSE None
OnPx4Tasks(phase, st) ==
    <<[phase |-> phase, at |-> IF StatusOfPhase(phase) = None THEN None ELSE st]>>

\* PX4Controller._emit(phase) with on_status = _on_px4_status, called while
\* the status is st
_on_px4_status(phase, st) ==
    /\ cbTasks' = cbTasks \o OnPx4Tasks(phase, st)
    /\ px4Emitted' = [px4Emitted EXCEPT ![phase] = @ + 1]

\* start_all 279-292: session id, session record, CONNECTING, px4_connect;
\* connect() (px4_control.py 83-101) returns at once when the controller is
\* connected already, else it emits PX4_CONNECTING and waits
start_all_session(s) ==
    /\ At(s, "sa_session") /\ Step(s)
    /\ session_id' = SessionId(now)
    /\ session' = session_id'
    /\ madeId' = [madeId EXCEPT ![s] = session_id']
    /\ status' = "CONNECTING"
    /\ evlog' = Logged(evlog, {StatusChange, <<"INFO", "supervisor", "PX4_CONNECTING">>})
    /\ IF px4_enabled /\ ~px4_connected
         THEN /\ px4_drone' = TRUE
              /\ _on_px4_status("PX4_CONNECTING", "CONNECTING")
              /\ Goto(s, "sa_connect_wait")
              /\ running' = None
         ELSE /\ px4_drone' = px4_drone
              /\ UNCHANGED <<cbTasks, px4Emitted>>
              /\ Goto(s, "sa_socat")
              /\ running' = s
    /\ UNCHANGED <<shutting_down, procVars, stack, loc, cancelReq, monitor_tasks,
                   px4_enabled, landCalls>>
    /\ start_session_reset
    /\ UNCHANGED <<exits, restNoCb, now, returnedId, failedAt>>
    /\ UNCHANGED <<px4_connected, px4_last, linkEvents, px4Logged>>

\* start_all 287-292 and connect() 138-147: the connect attempt ends. A first
\* connection within the timeout sets connected and emits PX4_CONNECTED (also
\* when the watcher has emitted it already), the timeout emits
\* PX4_CONNECTING_SLOW and returns; an exception is only a warning
px4_connect_done(s, ok) ==
    /\ At(s, "sa_connect_wait") /\ Resume(s)
    /\ evlog' = Logged(evlog, {IF ok THEN <<"INFO", "supervisor", "PX4_CONNECTED">>
                                     ELSE <<"WARN", "supervisor", "PX4_CONNECT_FAIL">>})
    /\ IF ok
         THEN \E first \in BOOLEAN :
                IF first
                  THEN /\ px4_connected' = TRUE
                       /\ _on_px4_status("PX4_CONNECTED", status)
                  ELSE /\ px4_connected' = px4_connected
                       /\ _on_px4_status("PX4_CONNECTING_SLOW", status)
         ELSE UNCHANGED <<px4_connected, cbTasks, px4Emitted>>
    /\ Goto(s, "sa_socat")
    /\ running' = s
    /\ UNCHANGED <<status, session, shutting_down, procVars, stack, loc, cancelReq,
                   monitor_tasks, px4Vars>>
    /\ UNCHANGED <<storeData, exits, restNoCb, runVars>>
    /\ UNCHANGED <<px4_last, linkEvents, px4Logged>>

\* connect() 103-120, watch_connection: the watcher task takes one item of
\* connection_state (up: is_connected)
MaxLinkEvents == 2
watch_connection(up) ==
    /\ px4_drone /\ running = None
    /\ linkEvents < MaxLinkEvents
    /\ linkEvents' = linkEvents + 1
    /\ px4_last' = IF up THEN "up" ELSE "down"
    /\ IF up /\ ~px4_connected
         THEN /\ px4_connected' = TRUE
              /\ _on_px4_status("PX4_CONNECTED", status)
         ELSE IF px4_last = "up" /\ ~up
                THEN /\ px4_connected' = FALSE
                     /\ _on_px4_status("PX4_DISCONNECTED", status)
                ELSE UNCHANGED <<px4_connected, cbTasks, px4Emitted>>
    /\ UNCHANGED <<status, session, running, shutting_down, procVars, taskVars, px4Vars,
                   evlog, px4Logged>>
    /\ UNCHANGED <<storeData, exits, restNoCb, runVars>>

\* the tasks of the oldest callback run: state.set_status(new) (183-188: the
\* status is set, whatever it was) with its STATUS_CHANGE event, then _log()
\* (add_event INFO PX4 phase)
px4_status_task ==
    /\ running = None /\ cbTasks # <<>>
    /\ cbTasks' = Tail(cbTasks)
    /\ status' = IF StatusOfPhase(Head(cbTasks).phase) = None THEN status
                 ELSE StatusOfPhase(Head(cbTasks).phase)
    /\ px4Logged' = [px4Logged EXCEPT ![Head(cbTasks).phase] = @ + 1]
    /\ evlog' = Logged(evlog, {StatusChange, <<"INFO", "PX4", Head(cbTasks).phase>>})
    /\ UNCHANGED <<session, running, shutting_down, procVars, taskVars, px4Vars,
                   px4_connected, px4_last, linkEvents, px4Emitted>>
    /\ UNCHANGED <<storeData, exits, restNoCb, runVars>>

\* _start_virtual_elrs_link: no-op when the bridge is alive, else spawn socat
_start_virtual_elrs_link(s) ==
    /\ At(s, "sa_socat") /\ MidRun(s)
    /\ IF processes["socat"] # None /\ Alive(processes["socat"])
         THEN /\ Goto(s, "sa_relay")
              /\ UNCHANGED <<processes, procState, evlog, failedAt>>
         ELSE IF socat_installed
                THEN /\ processes' = [processes EXCEPT !["socat"] = ProcId("socat", s)]
                     /\ procState' = [procState EXCEPT ![ProcId("socat", s)] = "alive"]
                     /\ evlog' = Logged(evlog, {<<"INFO", "server", "SOCAT_START">>})
                     /\ Goto(s, "sa_relay")
                     /\ UNCHANGED failedAt
                ELSE /\ evlog' = Logged(evlog, {<<"ERROR", "server", "SOCAT_NOT_FOUND">>})
                     /\ Goto(s, "sa_fail")
                     /\ failedAt' = [failedAt EXCEPT ![s] = "socat"]
                     /\ UNCHANGED <<processes, procState>>
    /\ UNCHANGED <<status, session, running, shutting_down, exitCtx, stack, loc,
                   cancelReq, monitor_tasks, px4Vars>>
    /\ UNCHANGED <<storeData, exits, restNoRun, sessionIdVars>>

\* start_all starting ground before air
AfterSpawn_ground_before_air(r) ==
    IF r = "relay" THEN "sa_ground" ELSE IF r = "ground" THEN "sa_air" ELSE "sa_ramping"

AfterSpawn(r) ==
    IF r = "relay" THEN "sa_air" ELSE IF r = "air" THEN "sa_ground" ELSE "sa_ramping"

\* start_relay / start_air / start_ground after the stop of an old process:
\* Popen, slot, PROCESS_START, monitor task; then the settle sleep of
\* start_all.  A Popen that raises leaves start_relay / start_air /
\* start_ground with nothing done and is caught by start_all.
Spawn(s, r) ==
    \E ok \in BOOLEAN :
      IF ok
        THEN /\ processes' = [processes EXCEPT ![r] = ProcId(r, s)]
             /\ procState' = [procState EXCEPT ![ProcId(r, s)] = "alive"]
             /\ evlog' = Logged(evlog, {<<"INFO", r, "PROCESS_START">>})
             /\ pc' = [pc EXCEPT ![s] = AfterSpawn(r), ![ProcId(r, s)] = "created"]
             /\ monitor_tasks' = Append(monitor_tasks, ProcId(r, s))
             /\ running' = None
             /\ UNCHANGED failedAt
        ELSE /\ Goto(s, "sa_fail")
             /\ failedAt' = [failedAt EXCEPT ![s] = r]
             /\ running' = s
             /\ UNCHANGED <<processes, procState, monitor_tasks, evlog>>

\* start_relay / start_air / start_ground: an occupied slot is stopped
\* first, an empty one is spawned into at once
start_role(s, r) ==
    /\ At(s, "sa_" \o r) /\ Step(s)
    /\ IF processes[r] # None
         THEN /\ _stop_process_begin(s, r, "sa_spawn_" \o r)
              /\ running' = s
              /\ UNCHANGED <<procState, evlog, monitor_tasks, failedAt>>
         ELSE /\ Spawn(s, r)
              /\ UNCHANGED <<stack, loc>>
    /\ UNCHANGED <<status, session, shutting_down, exitCtx, cancelReq, px4Vars>>
    /\ UNCHANGED <<storeData, exits, restNoRun, sessionIdVars>>

\* the spawn after the old process has been stopped
spawn_role(s, r) ==
    /\ At(s, "sa_spawn_" \o r) /\ MidRun(s)
    /\ Spawn(s, r)
    /\ UNCHANGED <<status, session, shutting_down, exitCtx, stack, loc, cancelReq, px4Vars>>
    /\ UNCHANGED <<storeData, exits, restNoRun, sessionIdVars>>

\* start_all 309-311: RAMPING, return self.session_id
start_all_ramping(s) ==
    /\ At(s, "sa_ramping") /\ Resume(s)
    /\ status' = "RAMPING"
    /\ evlog' = Logged(evlog, {StatusChange})
    /\ Goto(s, "started")
    /\ returnedId' = [returnedId EXCEPT ![s] = session_id]
    /\ UNCHANGED <<session, running, shutting_down, procVars, stack, loc, cancelReq,
                   monitor_tasks, px4Vars>>
    /\ UNCHANGED <<storeData, exits, restNoRun, now, session_id, madeId, failedAt>>

\* start_all raising without the rollback
start_all_fail_without_rollback(s) ==
    /\ At(s, "sa_fail") /\ MidRun(s)
    /\ evlog' = Logged(evlog, {<<"ERROR", "server", "START_FAIL">>})
    /\ Goto(s, "sa_raise")
    /\ UNCHANGED <<status, running, shutting_down, stack>>
    /\ UNCHANGED <<session, procVars, loc, cancelReq, monitor_tasks, px4Vars>>
    /\ UNCHANGED <<storeData, exits, restVars>>

\* start_all 313-321: except Exception: START_FAIL, await stop_all()
start_all_fail(s) ==
    /\ At(s, "sa_fail") /\ MidRun(s)
    /\ evlog' = Logged(evlog, {<<"ERROR", "server", "START_FAIL">>})
    /\ stop_all_begin(s, "sa_raise")
    /\ UNCHANGED <<session, procVars, loc, cancelReq, monitor_tasks, px4Vars>>
    /\ UNCHANGED <<storeData, exits, restVars>>

\* start_all 322 raise RuntimeError (or the exception stop_all raised);
\* main.py 217-221 logs START_FAILED
start_all_raise(s) ==
    /\ pc[s] \in {"sa_raise", "sa_stop_raised"} /\ MidRun(s)
    /\ evlog' = Logged(evlog, {<<"ERROR", "server", "START_FAILED">>})
    /\ Goto(s, "failed")
    /\ running' = None
    /\ UNCHANGED <<status, session, shutting_down, procVars, stack, loc, cancelReq,
                   monitor_tasks, px4Vars>>
    /\ UNCHANGED <<storeData, exits, restVars>>

(***************************************************************************)
(* POST /ramp/stop  (main.py stop_ramp)                                    *)
(***************************************************************************)
\* main.py 223-233: reject when nothing runs; with a drone object, land
\* first; without one, stop_all at once
stop_ramp(t) ==
    /\ At(t, "idle") /\ Resume(t)
    /\ IF ~is_running
         THEN /\ Goto(t, "rejected")
              /\ UNCHANGED <<running, landCalls, shutting_down, status, stack>>
         ELSE IF px4_drone
           THEN /\ landCalls' = landCalls + 1
                /\ Goto(t, "sr_land_wait")
                /\ UNCHANGED <<running, shutting_down, status, stack>>
           ELSE /\ stop_all_begin(t, "sr_done")
                /\ UNCHANGED landCalls
    /\ UNCHANGED <<session, procVars, loc, cancelReq, monitor_tasks, px4_enabled,
                   px4_drone, evlog>>
    /\ UNCHANGED <<storeData, exits, restVars>>

\* main.py 230-232: px4_land() ends; suppress(Exception) swallows a failure
\* and skips the sleep(3)
stop_ramp_land_done(t, ok) ==
    /\ At(t, "sr_land_wait") /\ Resume(t)
    /\ Goto(t, "sr_stop_all")
    /\ running' = IF ok THEN None ELSE t
    /\ UNCHANGED <<status, session, shutting_down, procVars, stack, loc, cancelReq,
                   monitor_tasks, px4Vars, evlog>>
    /\ UNCHANGED <<storeData, exits, restVars>>

\* main.py 233: await supervisor.stop_all()
stop_ramp_stop_all(t) ==
    /\ At(t, "sr_stop_all") /\ Step(t)
    /\ stop_all_begin(t, "sr_done")
    /\ UNCHANGED <<session, procVars, loc, cancelReq, monitor_tasks, px4Vars, evlog>>
    /\ UNCHANGED <<storeData, exits, restVars>>

\* main.py 234: return {"ok": True}
stop_ramp_done(t) ==
    /\ At(t, "sr_done") /\ MidRun(t)
    /\ Goto(t, "stopped")
    /\ running' = None
    /\ UNCHANGED <<status, session, shutting_down, procVars, stack, loc, cancelReq,
                   monitor_tasks, px4Vars, evlog>>
    /\ UNCHANGED <<storeData, exits, restVars>>

\* main.py 235-236: except Exception: STOP_FAILED, HTTP 500
stop_ramp_failed(t) ==
    /\ At(t, "sr_failed") /\ MidRun(t)
    /\ evlog' = Logged(evlog, {<<"ERROR", "server", "STOP_FAILED">>})
    /\ Goto(t, "failed")
    /\ running' = None
    /\ UNCHANGED <<status, session, shutting_down, procVars, stack, loc, cancelReq,
                   monitor_tasks, px4Vars>>
    /\ UNCHANGED <<storeData, exits, restVars>>

(***************************************************************************)
(* _monitor_process(name): one task per spawned process                    *)
(***************************************************************************)
\* 601-604: finally: clear the slot of this monitor's name; the task ends
monitor_finally(m) ==
    /\ processes' = [processes EXCEPT ![SlotOf(m)] = None]
    /\ Goto(m, "done")
    /\ cancelReq' = cancelReq \ {m}
    /\ running' = None

\* 584-593 (ground only): with the flag down: READY, stop_air, stop_relay,
\* _stop_virtual_elrs_link, SAFE; with the flag up all three checks fail
monitor_after_try(m) ==
    IF ~shutting_down
      THEN /\ status' = "READY"
           /\ _stop_process_begin(m, "air", "m_stop_relay")
           /\ running' = m
           /\ UNCHANGED cancelReq
      ELSE /\ monitor_finally(m)
           /\ UNCHANGED <<status, stack, loc>>

\* 526-528: first run of the task: read the slot; empty -> return (before try)
_monitor_process_first(m) ==
    /\ At(m, "created") /\ Resume(m)
    /\ LET proc == processes[SlotOf(m)]
       IN IF proc = None
            THEN Goto(m, "done") /\ UNCHANGED loc
            ELSE Goto(m, "reading") /\ loc' = [loc EXCEPT ![m].proc = proc]
    /\ UNCHANGED <<status, session, running, shutting_down, procVars, stack, cancelReq,
                   monitor_tasks, px4Vars, evlog>>
    /\ UNCHANGED <<storeData, exits, restVars>>

\* 534-582: stdout reaches EOF once the process has exited.  Exit code 0:
\* PROCESS_EXIT; else PROCESS_CRASH and, for ground with the flag down,
\* AUTO_LAND and px4_land() (which suspends only with a PX4) and sleep(5).
\* Every other case falls through the three flag checks to the finally.
_monitor_process_exit(m) ==
    /\ At(m, "reading") /\ Resume(m)
    /\ ~Alive(loc[m].proc)
    /\ LET name == SlotOf(m)
           exit_code == procState[loc[m].proc]
           exit_event == IF exit_code = "exit0" THEN <<"INFO", name, "PROCESS_EXIT">>
                         ELSE <<"ERROR", name, "PROCESS_CRASH">>
       IN /\ exitEvents' = [exitEvents EXCEPT ![m] = Append(@, exit_event)]
          /\ IF exit_code # "exit0" /\ name = "ground" /\ ~shutting_down
               THEN /\ evlog' = Logged(evlog, {exit_event, <<"INFO", "server", "AUTO_LAND">>})
                    /\ landCalls' = landCalls + 1
                    /\ Goto(m, IF px4_enabled THEN "m_land_wait" ELSE "m_stop_all")
                    /\ UNCHANGED <<running, processes, cancelReq>>
               ELSE /\ evlog' = Logged(evlog, {exit_event})
                    /\ monitor_finally(m)
                    /\ UNCHANGED landCalls
    /\ UNCHANGED <<status, session, shutting_down, osVars, stack, loc,
                   monitor_tasks, px4_enabled, px4_drone>>
    /\ UNCHANGED <<storeData, exits, restBase, cbVars, runVars, cancelledReading>>

\* 574-582: px4_land() ends: returns (then sleep(5)) or raises: LAND_FAILED
\* and on to the flag checks
_monitor_process_land_done(m, ok) ==
    /\ At(m, "m_land_wait") /\ Resume(m)
    /\ IF ok
         THEN /\ Goto(m, "m_stop_all")
              /\ UNCHANGED <<status, running, processes, stack, loc, cancelReq, evlog>>
         ELSE /\ evlog' = Logged(evlog, {<<"ERROR", "server", "LAND_FAILED">>})
              /\ monitor_after_try(m)
    /\ UNCHANGED <<session, shutting_down, osVars, monitor_tasks, px4Vars>>
    /\ UNCHANGED <<storeData, exits, restVars>>

\* 576: await self.stop_all()
_monitor_process_stop_all(m) ==
    /\ At(m, "m_stop_all") /\ Resume(m)
    /\ stop_all_begin(m, "m_after_try")
    /\ UNCHANGED <<session, procVars, loc, cancelReq, monitor_tasks, px4Vars, evlog>>
    /\ UNCHANGED <<storeData, exits, restVars>>

\* 577-582: stop_all raised: except Exception: LAND_FAILED, then the checks
_monitor_process_land_failed(m) ==
    /\ At(m, "m_land_failed") /\ MidRun(m)
    /\ evlog' = Logged(evlog, {<<"ERROR", "server", "LAND_FAILED">>})
    /\ monitor_after_try(m)
    /\ UNCHANGED <<session, shutting_down, osVars, monitor_tasks, px4Vars>>
    /\ UNCHANGED <<storeData, exits, restVars>>

\* 584-587: stop_all returned: the flag checks
_monitor_process_ready(m) ==
    /\ At(m, "m_after_try") /\ MidRun(m)
    /\ monitor_after_try(m)
    /\ UNCHANGED <<session, shutting_down, osVars, monitor_tasks, px4Vars, evlog>>
    /\ UNCHANGED <<storeData, exits, restVars>>

\* 588: await stop_relay()
_monitor_process_stop_relay(m) ==
    /\ At(m, "m_stop_relay") /\ MidRun(m)
    /\ _stop_process_begin(m, "relay", "m_stop_link")
    /\ UNCHANGED <<status, session, running, shutting_down, osVars, cancelReq,
                   monitor_tasks, px4Vars, evlog>>
    /\ UNCHANGED <<storeData, exits, restVars>>

\* 589: await _stop_virtual_elrs_link()
_monitor_process_stop_link(m) ==
    /\ At(m, "m_stop_link") /\ MidRun(m)
    /\ _stop_virtual_elrs_link_begin(m, "m_check_safe")
    /\ UNCHANGED <<status, session, running, shutting_down, osVars, cancelReq,
                   monitor_tasks, px4Vars>>
    /\ UNCHANGED <<storeData, exits, restVars>>

\* 592-604: flag down -> SAFE; finally
_monitor_process_safe(m) ==
    /\ At(m, "m_check_safe") /\ MidRun(m)
    /\ IF ~shutting_down
         THEN status' = "SAFE" /\ evlog' = Logged(evlog, {StatusChange})
         ELSE UNCHANGED <<status, evlog>>
    /\ monitor_finally(m)
    /\ UNCHANGED <<session, shutting_down, osVars, stack, loc, monitor_tasks, px4Vars>>
    /\ UNCHANGED <<storeData, exits, restVars>>

\* a cancellation that the monitor takes for the end of the stream: it
\* records the crash of its process
CancelledAsStreamEnd(m) ==
    /\ running = None
    /\ m \in cancelReq
    /\ pc[m] \notin {"unborn", "done", "stuck"}
    /\ processes' =
         IF pc[m] = "created" THEN processes
         ELSE [n \in Slots |->
                 IF \/ n = SlotOf(m)
                    \/ pc[m] \in {"sp_poll", "sp_kill", "sv_poll"} /\ n = loc[m].name
                 THEN None ELSE processes[n]]
    /\ Goto(m, "done")
    /\ stack' = [stack EXCEPT ![m] = <<>>]
    /\ loc' = [loc EXCEPT ![m] = NoTaskLocals]
    /\ cancelReq' = cancelReq \ {m}
    /\ UNCHANGED <<status, session, running, shutting_down, osVars,
                   monitor_tasks, px4Vars>>
    /\ evlog' = Logged(evlog, {<<"ERROR", SlotOf(m), "PROCESS_CRASH">>})
    /\ cancelledReading' = IF pc[m] = "reading" THEN cancelledReading \cup {m}
                           ELSE cancelledReading
    /\ UNCHANGED <<storeData, exits, restBase, exitEvents, cbVars, runVars>>

\* CancelledError thrown into a suspended monitor task.  A task that never ran
\* just ends.  Otherwise the error passes every `except Exception`, runs the
\* finally of the _stop_process / _stop_virtual_elrs_link it is inside and
\* the finally of _monitor_process; an interrupted stop_all leaves the flag up.
Cancelled(m) ==
    /\ running = None
    /\ m \in cancelReq
    /\ pc[m] \notin {"unborn", "done", "stuck"}
    /\ processes' =
         IF pc[m] = "created" THEN processes
         ELSE [n \in Slots |->
                 IF \/ n = SlotOf(m)
                    \/ pc[m] \in {"sp_poll", "sp_kill", "sv_poll"} /\ n = loc[m].name
                 THEN None ELSE processes[n]]
    /\ Goto(m, "done")
    /\ stack' = [stack EXCEPT ![m] = <<>>]
    /\ loc' = [loc EXCEPT ![m] = NoTaskLocals]
    /\ cancelReq' = cancelReq \ {m}
    /\ UNCHANGED <<status, session, running, shutting_down, osVars,
                   monitor_tasks, px4Vars, evlog>>
    /\ cancelledReading' = IF pc[m] = "reading" THEN cancelledReading \cup {m}
                           ELSE cancelledReading
    /\ UNCHANGED <<storeData, exits, restBase, exitEvents, cbVars, runVars>>

(***************************************************************************)
(* Specifications of the supervisor.  A behaviour has the requests that    *)
(* its initial state makes available; the others stay absent.              *)
(***************************************************************************)
InitWithLines(requests, px4, socat, lines) ==
    /\ status = "DISCONNECTED"
    /\ telemetry = DefaultTelemetry
    /\ events = <<>>
    /\ errors = <<>>
    /\ rtt_samples = <<>>
    /\ session = None
    /\ lock = None
    /\ spc = [c \in StoreCallers |-> "idle"]
    /\ sloc = [c \in StoreCallers |-> NoLocals]
    /\ snap = [c \in StoreCallers |-> NoSnapshot]
    /\ running = None
    /\ nextId = 1
    /\ appendedAll = <<>>
    /\ appendedErr = <<>>
    /\ telHist = <<telemetry>>
    /\ swaps = <<>>
    /\ lastSwapNew = "DISCONNECTED"
    /\ opsStarted = 0
    /\ px4_enabled \in px4
    /\ socat_installed \in socat
    /\ fn_init_for(lines)
    /\ ws_broadcast = "ok"
    /\ supervisor_init
    /\ pc = [t \in SupTasks |-> IF t \in requests THEN "idle"
                                ELSE IF t \in Monitors THEN "unborn" ELSE "absent"]

InitWith(requests, px4, socat) == InitWithLines(requests, px4, socat, "values")

StartStep ==
    \/ \E s \in StartReqs : start_ramp(s)
    \/ \E s \in StartReqs : start_all_session(s)
    \/ \E s \in StartReqs : \E ok \in BOOLEAN : px4_connect_done(s, ok)
    \/ \E s \in StartReqs : _start_virtual_elrs_link(s)
    \/ \E s \in StartReqs : \E r \in Roles : start_role(s, r)
    \/ \E s \in StartReqs : start_all_ramping(s)
    \/ \E s \in StartReqs : start_all_fail(s)
    \/ \E s \in StartReqs : start_all_raise(s)

StopRequestStep ==
    \/ \E t \in StopReqs : stop_ramp(t)
    \/ \E t \in StopReqs : \E ok \in BOOLEAN : stop_ramp_land_done(t, ok)
    \/ \E t \in StopReqs : stop_ramp_stop_all(t)
    \/ \E t \in StopReqs : stop_ramp_done(t)
    \/ \E t \in StopReqs : stop_ramp_failed(t)

StopAllStep ==
    \/ \E t \in SupTasks : _stop_process_poll(t)
    \/ \E t \in SupTasks : _stop_process_kill(t)
    \/ \E t \in SupTasks : _stop_virtual_elrs_link_poll(t)
    \/ \E t \in SupTasks : \E r \in Roles : stop_all_stop(t, r)
    \/ \E t \in SupTasks : stop_all_stop_link(t)
    \/ \E t \in SupTasks : stop_all_cancel(t)
    \/ \E t \in SupTasks : stop_all_gather(t)
    \/ \E t \in SupTasks : stop_all_finish(t)

\* the steps of a monitor other than the return of its stop_all
MonitorRunStep ==
    \/ \E m \in Monitors : _monitor_process_first(m)
    \/ \E m \in Monitors : _monitor_process_exit(m)
    \/ \E m \in Monitors : \E ok \in BOOLEAN : _monitor_process_land_done(m, ok)
    \/ \E m \in Monitors : _monitor_process_stop_all(m)
    \/ \E m \in Monitors : _monitor_process_stop_relay(m)
    \/ \E m \in Monitors : _monitor_process_stop_link(m)
    \/ \E m \in Monitors : _monitor_process_safe(m)
    \/ \E m \in Monitors : Cancelled(m)

MonitorStep ==
    \/ MonitorRunStep
    \/ \E m \in Monitors : _monitor_process_ready(m)

\* steps that need a second run: a slot still occupied when a role is
\* started, and a monitor whose stop_all runs into an earlier blocked monitor
SecondRunStep ==
    \/ \E s \in StartReqs : \E r \in Roles : spawn_role(s, r)
    \/ \E m \in Monitors : _monitor_process_land_failed(m)

ExitStep ==
    \E p \in AllProcs : \E code \in ExitCodes : ProcExit(p, code)

\* everything the program does by itself once its requests have arrived
ProgramStep == StartStep \/ StopRequestStep \/ StopAllStep \/ MonitorStep

\* one start request and one stop request
Next == ProgramStep \/ ExitStep
Init == InitWith({"start1", "stop1"}, BOOLEAN, BOOLEAN)
Spec == Init /\ [][Next]_vars

\* one start request and no operator: the run is left to itself.  The loop
\* runs every task that is ready to run.
UnattendedStep == StartStep \/ StopAllStep \/ MonitorRunStep
NextUnattended == UnattendedStep \/ ExitStep
InitUnattended == InitWith({"start1"}, BOOLEAN, {TRUE})
SpecFair == InitUnattended /\ [][NextUnattended]_vars /\ WF_vars(UnattendedStep)

\* one start request with the drone link enabled: the program by itself, the
\* link going up and down, and the tasks of the status callback
Px4Step ==
    \/ \E up \in BOOLEAN : watch_connection(up)
    \/ px4_status_task
NextPx4 == UnattendedStep \/ ExitStep \/ Px4Step
InitPx4 == InitWith({"start1"}, {TRUE}, {TRUE})
SpecPx4 == InitPx4 /\ [][NextPx4]_vars

\* two start requests on a host without socat: every start_all fails at the
\* bridge and rolls back through stop_all with nothing running
NextNoSocat ==
    \/ \E s \in StartReqs : start_ramp(s)
    \/ \E s \in StartReqs : start_all_session(s)
    \/ \E s \in StartReqs : \E ok \in BOOLEAN : px4_connect_done(s, ok)
    \/ \E s \in StartReqs : _start_virtual_elrs_link(s)
    \/ \E s \in StartReqs : start_all_fail(s)
    \/ \E s \in StartReqs : start_all_raise(s)
    \/ \E s \in StartReqs : \E r \in Roles : stop_all_stop(s, r)
    \/ \E s \in StartReqs : stop_all_stop_link(s)
    \/ \E s \in StartReqs : stop_all_cancel(s)
    \/ \E s \in StartReqs : stop_all_finish(s)
    \/ Tick
InitNoSocat == InitWith({"start1", "start2"}, BOOLEAN, {FALSE})
SpecNoSocat == InitNoSocat /\ [][NextNoSocat]_vars

\* two start requests with the bridge installed: the second run finds the
\* slots of the first still occupied
NextTwoStarts == StartStep \/ StopAllStep \/ MonitorStep \/ SecondRunStep \/ ExitStep
InitTwoStarts == InitWith({"start1", "start2"}, {FALSE}, {TRUE})
SpecTwoStarts == InitTwoStarts /\ [][NextTwoStarts]_vars

(***************************************************************************)
(* Protocol line decoders : parsers.py                                     *)
(* A line is a sequence of characters, each a one-character string; the    *)
(* degree sign is written "deg" and the check mark "check".                *)
(***************************************************************************)
Digits == {"0", "1", "2", "3", "4", "5", "6", "7", "8", "9"}
DigitValue ==
    ("0" :> 0) @@ ("1" :> 1) @@ ("2" :> 2) @@ ("3" :> 3) @@ ("4" :> 4) @@
    ("5" :> 5) @@ ("6" :> 6) @@ ("7" :> 7) @@ ("8" :> 8) @@ ("9" :> 9)
Whitespace == {" "}
\* the character classes of the patterns: \d , [\d.] , [-\d.]
ClassD == Digits
ClassDDot == Digits \cup {"."}
ClassSDDot == Digits \cup {".", "-"}
\* \w
Letters ==
    {"a", "b", "c", "d", "e", "f", "g", "h", "i", "j", "k", "l", "m", "n", "o", "p", "q",
     "r", "s", "t", "u", "v", "w", "x", "y", "z", "A", "B", "C", "D", "E", "F", "G", "H",
     "I", "J", "K", "L", "M", "N", "O", "P", "Q", "R", "S", "T", "U", "V", "W", "X", "Y",
     "Z"}
ClassW == Letters \cup Digits \cup {"_"}

\* ---- Python values ----
PyInt(n) == [type |-> "int", v |-> n]
\* a float is held in thousandths
PyFloat(milli) == [type |-> "float", v |-> milli]
PyNone == [type |-> "NoneType"]
\* a str is held as its characters
PyStr(text) == [type |-> "str", v |-> text]

\* ---- re : a pattern is a sequence of elements ----
Lit(s) == [t |-> "lit", s |-> s]
Ws1 == [t |-> "ws+"]
Ws0 == [t |-> "ws*"]
\* (?P<name>[cls]+)
Grp(name, cls) == [t |-> "grp", name |-> name, cls |-> cls]
\* (?: ... )?
Opt(p) == [t |-> "opt", pat |-> p]
\* (?P<name>[cls])
Grp1(name, cls) == [t |-> "one", name |-> name, cls |-> cls]
\* (?P<name>-?\d+)
SGrp(name) == [t |-> "sgrp", name |-> name]
\* (?P<name>a|b): the alternatives in their order
Alt(name, alts) == [t |-> "alt", name |-> name, alts |-> alts]

NoGroups == [x \in {} |-> <<>>]
NoMatch == [ok |-> FALSE, pos |-> 0, groups |-> NoGroups]

\* the end of the longest run of characters of cls that starts at i
RunEnd(ln, i, cls) ==
    CHOOSE j \in i..(Len(ln) + 1) :
        /\ \A k \in i..(j - 1) : ln[k] \in cls
        /\ (j = Len(ln) + 1 \/ ln[j] \notin cls)

\* Matching the elements from the k-th on at position i.  Every repetition
\* in the patterns below is followed by a character outside its class and
\* every optional group by optional groups only, so taking the longest run
\* and the group when it matches is what the backtracking matcher returns.
RECURSIVE MatchFrom(_, _, _, _, _)
MatchFrom(pat, k, ln, i, groups) ==
    IF k > Len(pat) THEN [ok |-> TRUE, pos |-> i, groups |-> groups]
    ELSE LET e == pat[k] IN
      CASE e.t = "lit" ->
             IF i + Len(e.s) - 1 <= Len(ln) /\ SubSeq(ln, i, i + Len(e.s) - 1) = e.s
               THEN MatchFrom(pat, k + 1, ln, i + Len(e.s), groups)
               ELSE NoMatch
        [] e.t = "ws+" ->
             IF RunEnd(ln, i, Whitespace) > i
               THEN MatchFrom(pat, k + 1, ln, RunEnd(ln, i, Whitespace), groups)
               ELSE NoMatch
        [] e.t = "ws*" ->
             MatchFrom(pat, k + 1, ln, RunEnd(ln, i, Whitespace), groups)
        [] e.t = "grp" ->
             LET j == RunEnd(ln, i, e.cls) IN
             IF j > i
               THEN MatchFrom(pat, k + 1, ln, j, groups @@ (e.name :> SubSeq(ln, i, j - 1)))
               ELSE NoMatch
        [] e.t = "opt" ->
             LET r == MatchFrom(e.pat, 1, ln, i, groups) IN
             IF r.ok THEN MatchFrom(pat, k + 1, ln, r.pos, r.groups)
                     ELSE MatchFrom(pat, k + 1, ln, i, groups)
        [] e.t = "one" ->
             IF i <= Len(ln) /\ ln[i] \in e.cls
               THEN MatchFrom(pat, k + 1, ln, i + 1, groups @@ (e.name :> <<ln[i]>>))
               ELSE NoMatch
        [] e.t = "sgrp" ->
             LET d == IF i <= Len(ln) /\ ln[i] = "-" THEN i + 1 ELSE i
                 j == RunEnd(ln, d, Digits)
             IN IF j > d
                  THEN MatchFrom(pat, k + 1, ln, j, groups @@ (e.name :> SubSeq(ln, i, j - 1)))
                  ELSE NoMatch
        [] e.t = "alt" ->
             LET fits == { a \in DOMAIN e.alts :
                             /\ i + Len(e.alts[a]) - 1 <= Len(ln)
                             /\ SubSeq(ln, i, i + Len(e.alts[a]) - 1) = e.alts[a] }
             IN IF fits = {} THEN NoMatch
                ELSE LET a == CHOOSE x \in fits : \A y \in fits : x <= y IN
                     MatchFrom(pat, k + 1, ln, i + Len(e.alts[a]),
                               groups @@ (e.name :> e.alts[a]))

\* pattern.search(line): the match at the leftmost position that has one.
\* Every pattern begins with literal text, so a match begins at one of its
\* first characters.
CanStart(pat, ln, i) ==
    CASE pat[1].t = "lit" -> ln[i] = pat[1].s[1]
      [] pat[1].t = "alt" -> \E a \in DOMAIN pat[1].alts : ln[i] = pat[1].alts[a][1]
      [] OTHER -> TRUE
re_search(pat, ln) ==
    LET at == [i \in { j \in 1..Len(ln) : CanStart(pat, ln, j) }
                 |-> MatchFrom(pat, 1, ln, i, NoGroups)]
        starts == { i \in DOMAIN at : at[i].ok }
    IN  IF starts = {} THEN NoMatch
        ELSE at[CHOOSE i \in starts : \A j \in starts : i <= j]

\* match.group(name): None for a group that did not take part
HasGroup(mt, name) == name \in DOMAIN mt.groups

\* ---- int(text), float(text) ----
RECURSIVE DecimalValue(_)
DecimalValue(text) ==
    IF text = <<>> THEN 0
    ELSE 10 * DecimalValue(SubSeq(text, 1, Len(text) - 1)) + DigitValue[text[Len(text)]]

py_int(text) == PyInt(DecimalValue(text))
\* int(text) for a text matched by -?\d+
py_int_signed(text) ==
    IF text[1] = "-" THEN PyInt(-DecimalValue(Tail(text))) ELSE PyInt(DecimalValue(text))

\* the first three digits of a fraction, padded with zeros
Thousandths(frac) == DecimalValue(SubSeq(frac \o <<"0", "0", "0">>, 1, 3))

\* float(text) without the fraction: what int-like parsing of the text gives
py_float_whole(text) ==
    LET body == IF text # <<>> /\ text[1] = "-" THEN Tail(text) ELSE text
        dot == RunEnd(body, 1, Digits)
    IN  [ok |-> TRUE,
         val |-> PyFloat((IF body = text THEN 1 ELSE -1) * 1000 * DecimalValue(SubSeq(body, 1, dot - 1)))]

\* float(text) for a text of digits, dots and minus signs: an optional
\* leading sign, digits with at most one dot among them and at least one
\* digit; anything else raises ValueError (ok = FALSE)
py_float(text) ==
    LET neg == text # <<>> /\ text[1] = "-"
        body == IF neg THEN Tail(text) ELSE text
        dots == { i \in DOMAIN body : body[i] = "." }
        valid == /\ \A i \in DOMAIN body : body[i] \in ClassDDot
                 /\ Cardinality(dots) <= 1
                 /\ Cardinality(DOMAIN body) > Cardinality(dots)
        dot == IF dots = {} THEN Len(body) + 1 ELSE CHOOSE i \in dots : TRUE
        whole == DecimalValue(SubSeq(body, 1, dot - 1))
        frac == Thousandths(SubSeq(body, dot + 1, Len(body)))
    IN  IF valid
          THEN [ok |-> TRUE, val |-> PyFloat((IF neg THEN -1 ELSE 1) * (1000 * whole + frac))]
          ELSE [ok |-> FALSE, val |-> PyNone]

\* ---- GroundParser.telemetry_pattern : parsers.py 41-73 ----
telemetry_pattern ==
    << Lit(<<"[">>), Ws0, Grp("pct", ClassD), Lit(<<"%", "]">>),
       Ws1, Lit(<<"C", "m", "d", ":">>), Ws0, Grp("cmd_w", ClassDDot), Lit(<<"W">>),
       Ws1, Lit(<<"|">>), Ws1, Lit(<<"R", "c", "v", ":">>), Ws0, Grp("rcv_mw", ClassDDot), Lit(<<"m", "W">>),
       Ws1, Lit(<<"|">>), Ws1, Lit(<<"E", "f", "f", ":">>), Ws0, Grp("eff", ClassDDot), Lit(<<"%">>),
       Ws1, Lit(<<"|">>), Ws1, Lit(<<"L", "Q", ":">>), Ws0, Grp("lq", ClassD), Lit(<<"%">>),
       Ws1, Lit(<<"|">>), Ws1, Lit(<<"R", "T", "T", ":">>), Ws0, Grp("rtt", ClassDDot), Lit(<<"m", "s">>),
       Ws1, Lit(<<"|">>), Ws1, Lit(<<"G", "/", "D", ":">>), Ws0, Grp("grants", ClassD), Lit(<<"/">>),
       Grp("denies", ClassD),
       Opt(<< Ws1, Lit(<<"(">>), Grp("grant_rate", ClassDDot), Lit(<<"%", ")">>) >>),
       Opt(<< Ws1, Lit(<<"|">>), Ws1, Lit(<<"d", "=">>), Grp("dist", ClassDDot), Lit(<<"m">>) >>),
       Opt(<< Ws1, Lit(<<"r", "=">>), Grp("roll", ClassSDDot), Lit(<<"deg">>) >>),
       Opt(<< Ws1, Lit(<<"p", "=">>), Grp("pitch", ClassSDDot), Lit(<<"deg">>) >>) >>

\* ---- AirParser.grant_pattern : parsers.py 241-250 ----
grant_pattern ==
    << Lit(<<"check", " ", "G", "R", "A", "N", "T">>), Ws1, Lit(<<"s", "e", "q", "=">>), Grp("seq", ClassD), Ws1, Lit(<<"|">>), Ws1,
       Lit(<<"C", "m", "d", ":">>), Grp("cmd_w", ClassDDot), Lit(<<"W">>), Ws1, Lit(<<"|">>), Ws1,
       Lit(<<"R", "c", "v", ":">>), Grp("rcv_mw", ClassDDot), Lit(<<"m", "W">>), Ws1, Lit(<<"|">>), Ws1,
       Lit(<<"E", "f", "f", ":">>), Grp("eff", ClassDDot), Lit(<<"%">>), Ws1, Lit(<<"|">>), Ws1,
       Lit(<<"d", "=">>), Grp("dist", ClassDDot), Lit(<<"m">>), Ws1, Lit(<<"|">>), Ws1,
       Lit(<<"r", "=">>), Grp("roll", ClassSDDot), Lit(<<"deg">>), Ws1,
       Lit(<<"p", "=">>), Grp("pitch", ClassSDDot), Lit(<<"deg">>) >>

\* ---- GroundParser: deny_pattern 80-84, ramp_level_pattern 92-94,
\* battery_pattern 99-101 ----
GroundParser_deny_pattern ==
    << Lit(<<"D", "E", "N", "Y", " ", "r", "e", "c", "e", "i", "v", "e", "d", ":">>), Ws1, Lit(<<"s", "e", "q", "=">>), Grp("seq", ClassD), Ws1,
       Lit(<<"r", "e", "a", "s", "o", "n", "=">>), Grp("reason", ClassW) >>
ramp_level_pattern ==
    << Lit(<<"[", "R", "A", "M", "P", "]">>), Ws1, Lit(<<"L", "e", "v", "e", "l">>), Ws1, Grp("current", ClassD), Lit(<<"/">>),
       Grp("total", ClassD), Lit(<<":">>), Ws1, Grp("pct", ClassD), Lit(<<"%">>) >>
battery_pattern ==
    << Lit(<<"B", "A", "T", ":">>), Grp("voltage", ClassD), Lit(<<"m", "V">>), Ws1, SGrp("current"), Lit(<<"m", "A">>), Ws1,
       Grp("temp", ClassD), Lit(<<"c", "d", "e", "g">>) >>

\* ---- AirParser: deny_pattern 266-273, px4_gate_pattern 281-287,
\* px4_alt_pattern 290-292, px4_bat_pattern 295-297, home_set_pattern 300-302 ----
AirParser_deny_pattern ==
    << Lit(<<"cross", " ", "D", "E", "N", "Y">>), Ws1, Lit(<<"s", "e", "q", "=">>), Grp("seq", ClassD), Ws1, Lit(<<"|">>), Ws1,
       Grp("reason", ClassW), Ws1, Lit(<<"|">>), Ws1,
       Lit(<<"r", "=">>), Grp("roll", ClassSDDot), Lit(<<"deg">>), Ws1,
       Lit(<<"p", "=">>), Grp("pitch", ClassSDDot), Lit(<<"deg">>),
       Opt(<< Ws1, Lit(<<"|">>), Ws1, Lit(<<"a", "t", "t", "_", "e", "r", "r", "=">>), Grp("att_err", ClassDDot), Lit(<<"deg">>) >>) >>
px4_gate_pattern ==
    << Lit(<<"P", "X", "4", " ", "g", "a", "t", "e", ":">>), Ws1, Lit(<<"h", "b", "=">>), Grp1("hb", ClassD), Ws1,
       Lit(<<"a", "r", "m", "e", "d", "=">>), Grp1("armed", ClassD), Ws1, Lit(<<"e", "k", "f", "=">>), Grp1("ekf", ClassD), Ws1,
       Lit(<<"c", "o", "n", "e", "=">>), Grp1("cone", ClassD) >>
px4_alt_pattern ==
    << Lit(<<"[", "a", "i", "r", "]">>), Ws1, Lit(<<"P", "X", "4">>), Ws1, Lit(<<"A", "L", "T">>), Ws1, Lit(<<"r", "e", "l", "=">>),
       Grp("rel", ClassSDDot), Lit(<<"m">>) >>
px4_bat_pattern ==
    << Lit(<<"[", "a", "i", "r", "]">>), Ws1, Lit(<<"P", "X", "4">>), Ws1, Lit(<<"B", "A", "T">>), Ws1, Lit(<<"V", "=">>), Grp("v", ClassD),
       Lit(<<"m", "V">>), Ws1, Lit(<<"I", "=">>), SGrp("i"), Lit(<<"m", "A">>), Ws1, Lit(<<"r", "e", "m", "=">>), SGrp("rem"),
       Lit(<<"%">>) >>
home_set_pattern ==
    << Lit(<<"[", "a", "i", "r", "]">>), Ws1, Lit(<<"H", "o", "m", "e">>), Ws1, Lit(<<"s", "e", "t", ":">>), Ws1, Grp("lat", ClassSDDot),
       Lit(<<",">>), Ws1, Grp("lon", ClassSDDot) >>

\* ---- RelayParser: counter_pattern 457-462, drop_pattern 471-473 ----
counter_pattern ==
    << Alt("direction", << <<"U", "D", "P", "-", ">", "S", "E", "R">>, <<"S", "E", "R", "-", ">", "U", "D", "P">> >>), Lit(<<":">>), Ws1,
       Lit(<<"q", "u", "e", "u", "e", "=">>), Grp("queue", ClassD), Ws1, Lit(<<"t", "o", "t", "a", "l", "=">>), Grp("total", ClassD), Ws1,
       Lit(<<"l", "a", "s", "t", "=">>), Grp("msg_type", ClassW) >>
drop_pattern ==
    << Lit(<<"D", "r", "o", "p", "p", "e", "d", " ", "p", "a", "c", "k", "e", "t", ":">>), Ws1, Grp("msg_type", ClassW) >>

\* the rules of each parse_line in the order it tries them
GroundRules == <<"summary", "deny", "ramp", "battery">>
GroundPatterns ==
    <<telemetry_pattern, GroundParser_deny_pattern, ramp_level_pattern, battery_pattern>>
AirRules == <<"grant", "deny", "alt", "bat", "home", "gate">>
AirPatterns ==
    <<grant_pattern, AirParser_deny_pattern, px4_alt_pattern, px4_bat_pattern,
      home_set_pattern, px4_gate_pattern>>
RelayRules == <<"counter", "drop">>
RelayPatterns == <<counter_pattern, drop_pattern>>

\* a chain that goes on to the later rules after a match: the last rule that
\* matches is the one applied
RECURSIVE LastMatch(_, _, _)
LastMatch(pats, ln, k) ==
    IF k > Len(pats) THEN [k |-> 0, mt |-> NoMatch]
    ELSE LET later == LastMatch(pats, ln, k + 1)
             mt == re_search(pats[k], ln)
         IN  IF later.k # 0 THEN later
             ELSE IF mt.ok THEN [k |-> k, mt |-> mt]
             ELSE later

\* match = pattern.search(line); if match: ...; return -- rule after rule: the
\* first pattern from the k-th on that matches and its match, k = 0 when
\* none does
RECURSIVE FirstMatch(_, _, _)
FirstMatch(pats, ln, k) ==
    IF k > Len(pats) THEN [k |-> 0, mt |-> NoMatch]
    ELSE LET mt == re_search(pats[k], ln) IN
         IF mt.ok THEN [k |-> k, mt |-> mt]
         ELSE FirstMatch(pats, ln, k + 1)

\* the arguments of an add_event call
EventOf(level, src, code, msg) == [level |-> level, src |-> src, code |-> code, msg |-> msg]

\* ---- the lines the role processes print ----
DigitChar == <<"0", "1", "2", "3", "4", "5", "6", "7", "8", "9">>

\* "%d"
RECURSIVE FormatInt(_)
FormatInt(n) ==
    IF n < 10 THEN <<DigitChar[n + 1]>>
    ELSE FormatInt(n \div 10) \o <<DigitChar[(n % 10) + 1]>>

Abs(n) == IF n < 0 THEN -n ELSE n

\* "%.1f" of a value given in thousandths (a multiple of 100)
Format1f(milli) ==
    (IF milli < 0 THEN <<"-">> ELSE <<>>)
        \o FormatInt(Abs(milli) \div 1000) \o <<".">> \o FormatInt((Abs(milli) % 1000) \div 100)

\* the Ground summary line of test_parsers (571), from the texts of its fields
GroundLineText(f) ==
    <<" ", " ", "[", " ", " ">> \o f.pct \o <<"%", "]", " ", "C", "m", "d", ":">> \o f.cmd_w \o <<"W", " ", "|", " ", "R", "c", "v", ":">> \o f.rcv_mw
        \o <<"m", "W", " ", "|", " ", "E", "f", "f", ":">> \o f.eff \o <<"%", " ", "|", " ", "L", "Q", ":">> \o f.lq \o <<"%", " ", "|", " ", "R", "T", "T", ":">> \o f.rtt
        \o <<"m", "s", " ", "|", " ", "G", "/", "D", ":">> \o f.grants \o <<"/">> \o f.denies
        \o (IF f.rate THEN <<" ", "(", "8", "3", "%", ")">> ELSE <<>>)
        \o (IF f.tail \in {"dist", "dist_roll_pitch"}
              THEN <<" ", "|", " ", "d", "=">> \o f.dist \o <<"m">> ELSE <<>>)
        \o (IF f.tail \in {"roll_pitch", "dist_roll_pitch"}
              THEN <<" ", "r", "=">> \o f.roll \o <<"deg">> \o <<" ", "p", "=">> \o f.pitch \o <<"deg">> ELSE <<>>)

GroundTexts(v) ==
    [pct |-> FormatInt(v.pct), cmd_w |-> Format1f(v.cmd_w), rcv_mw |-> Format1f(v.rcv_mw),
     eff |-> Format1f(v.eff), lq |-> FormatInt(v.lq), rtt |-> Format1f(v.rtt),
     grants |-> FormatInt(v.gd[1]), denies |-> FormatInt(v.gd[2]), rate |-> v.rate,
     tail |-> v.tail, dist |-> Format1f(v.dist), roll |-> Format1f(v.roll),
     pitch |-> Format1f(v.pitch)]

GroundLine(v) == GroundLineText(GroundTexts(v))

\* the values a summary line carries (floats in thousandths)
GroundValues ==
    [pct : {45, 0}, cmd_w : {225000}, rcv_mw : {45000000}, eff : {20000}, lq : {92},
     rtt : {34500, 0}, gd : {<<450, 89>>, <<0, 0>>}, rate : {TRUE},
     tail : {"none", "dist", "roll_pitch", "dist_roll_pitch"},
     dist : {42100}, roll : {35200}, pitch : {-8100}]

TestGroundValues ==
    [pct |-> 45, cmd_w |-> 225000, rcv_mw |-> 45000000, eff |-> 20000, lq |-> 92,
     rtt |-> 34500, gd |-> <<450, 89>>, rate |-> TRUE, tail |-> "dist_roll_pitch",
     dist |-> 42100, roll |-> 35200, pitch |-> -8100]

\* the Air GRANT line of test_parsers (582)
AirLineText(f) ==
    <<"[", "a", "i", "r", "]", " ", "check", " ", "G", "R", "A", "N", "T", " ", "s", "e", "q", "=">> \o f.seq \o <<" ", "|", " ", "C", "m", "d", ":">> \o f.cmd_w \o <<"W", " ", "|", " ", "R", "c", "v", ":">> \o f.rcv_mw
        \o <<"m", "W", " ", "|", " ", "E", "f", "f", ":">> \o f.eff \o <<"%", " ", "|", " ", "d", "=">> \o f.dist \o <<"m", " ", "|", " ", "r", "=">> \o f.roll
        \o <<"deg", " ", "p", "=">> \o f.pitch \o <<"deg">>

AirTexts(v) ==
    [seq |-> FormatInt(v.seq), cmd_w |-> FormatInt(v.cmd_w \div 1000),
     rcv_mw |-> Format1f(v.rcv_mw), eff |-> Format1f(v.eff), dist |-> Format1f(v.dist),
     roll |-> Format1f(v.roll), pitch |-> Format1f(v.pitch)]

AirLine(v) == AirLineText(AirTexts(v))

AirValues ==
    [seq : {123, 0}, cmd_w : {100000}, rcv_mw : {40000000}, eff : {40000}, dist : {50000},
     roll : {0, 10000, -8100, 12000}, pitch : {0, 10000}]

\* what a monitor can read: lines made from values, lines no rule matches, and
\* lines whose number fields are not numbers
NotFromValues == [rule |-> "none"]
GroundInputs ==
    { [ln |-> GroundLine(v), sent |-> [rule |-> "summary", v |-> v]] : v \in GroundValues }
    \cup { [ln |-> <<"G", "r", "o", "u", "n", "d", " ", "n", "o", "d", "e", " ", "s", "t", "a", "r", "t", "e", "d">>, sent |-> NotFromValues],
           [ln |-> GroundLineText([GroundTexts(TestGroundValues) EXCEPT !.cmd_w = <<"1", ".", "2", ".", "3">>]),
            sent |-> NotFromValues],
           [ln |-> GroundLineText([GroundTexts(TestGroundValues) EXCEPT !.roll = <<"-">>]),
            sent |-> NotFromValues] }
AirInputs ==
    { [ln |-> AirLine(v), sent |-> [rule |-> "grant", v |-> v]] : v \in AirValues }
    \cup { [ln |-> <<"[", "a", "i", "r", "]", " ", "l", "i", "s", "t", "e", "n", "i", "n", "g">>, sent |-> NotFromValues],
           [ln |-> AirLineText([AirTexts(CHOOSE v \in AirValues : TRUE) EXCEPT !.pitch = <<"-", ".">>]),
            sent |-> NotFromValues] }

\* ---- lines for the rules of the three decoders: the example lines of
\* parsers.py (71, 78, 90, 264, 279, 454-455, 469) and of the processes ----
GroundRuleTexts ==
    [summary |-> GroundLine(TestGroundValues),
     deny |-> <<"[", "g", "r", "o", "u", "n", "d", "]", " ", "warn", " ", "D", "E", "N", "Y", " ", "r", "e", "c", "e", "i", "v", "e", "d", ":", " ", "s", "e", "q", "=", "1", "2", "4", " ", "r", "e", "a", "s", "o", "n", "=", "P", "X", "4", "N", "o", "t", "O", "K">>,
     ramp |-> <<"[", "R", "A", "M", "P", "]", " ", "L", "e", "v", "e", "l", " ", "9", "/", "1", "6", ":", " ", "4", "5", "%">>,
     battery |-> <<"B", "A", "T", ":", "3", "7", "0", "0", "m", "V", " ", "-", "2", "5", "0", "m", "A", " ", "3", "1", "2", "c", "d", "e", "g">>]
AirRuleTexts ==
    [grant |-> AirLine([seq |-> 123, cmd_w |-> 100000, rcv_mw |-> 40000000, eff |-> 40000,
                        dist |-> 50000, roll |-> 10000, pitch |-> 0]),
     deny |-> <<"[", "a", "i", "r", "]", " ", "cross", " ", "D", "E", "N", "Y", " ", "s", "e", "q", "=", "1", "2", "4", " ", "|", " ", "P", "X", "4", "_", "N", "O", "T", "_", "O", "K", " ", "|", " ", "r", "=", "3", "5", ".", "0", "deg", " ", "p", "=", "-", "1", "0", ".", "0", "deg", " ", "|", " ", "a", "t", "t", "_", "e", "r", "r", "=", "3", "6", ".", "4", "deg", " ", "(", "c", "o", "n", "e", "=", "1", "2", "deg", ")">>,
     alt |-> <<"[", "a", "i", "r", "]", " ", "P", "X", "4", " ", "A", "L", "T", " ", "r", "e", "l", "=", "1", "2", ".", "5", "m">>,
     bat |-> <<"[", "a", "i", "r", "]", " ", "P", "X", "4", " ", "B", "A", "T", " ", "V", "=", "1", "5", "8", "0", "0", "m", "V", " ", "I", "=", "-", "1", "2", "0", "0", "m", "A", " ", "r", "e", "m", "=", "8", "7", "%">>,
     home |-> <<"[", "a", "i", "r", "]", " ", "H", "o", "m", "e", " ", "s", "e", "t", ":", " ", "4", "7", ".", "5", ",", " ", "8", ".", "5">>,
     gate |-> <<"[", "a", "i", "r", "]", " ", "P", "X", "4", " ", "g", "a", "t", "e", ":", " ", "h", "b", "=", "1", " ", "a", "r", "m", "e", "d", "=", "1", " ", "e", "k", "f", "=", "1", " ", "c", "o", "n", "e", "=", "0", " ", "(", "r", "=", "3", "5", ".", "0", "deg", " ", "p", "=", "-", "1", "0", ".", "0", "deg", ")">>]
RelayRuleTexts ==
    [counter |-> <<"[", "m", "a", "v", "_", "r", "e", "l", "a", "y", "]", " ", "U", "D", "P", "-", ">", "S", "E", "R", ":", " ", "q", "u", "e", "u", "e", "=", "5", " ", "t", "o", "t", "a", "l", "=", "1", "2", "3", "4", " ", "l", "a", "s", "t", "=", "L", "A", "S", "E", "R", "_", "P", "E", "R", "M", "I", "T">>,
     drop |-> <<"[", "m", "a", "v", "_", "r", "e", "l", "a", "y", "]", " ", "D", "r", "o", "p", "p", "e", "d", " ", "p", "a", "c", "k", "e", "t", ":", " ", "L", "A", "S", "E", "R", "_", "P", "E", "R", "M", "I", "T", " ", "(", "l", "o", "s", "s", " ", "s", "i", "m", "u", "l", "a", "t", "i", "o", "n", ")">>]

\* other lines of one rule each
AirRuleVariants ==
    { [rule |-> "deny", ln |-> <<"[", "a", "i", "r", "]", " ", "cross", " ", "D", "E", "N", "Y", " ", "s", "e", "q", "=", "1", "2", "5", " ", "|", " ", "R", "A", "N", "G", "E", " ", "|", " ", "r", "=", "1", ".", "0", "deg", " ", "p", "=", "2", ".", "0", "deg">>],
      [rule |-> "deny", ln |-> <<"[", "a", "i", "r", "]", " ", "cross", " ", "D", "E", "N", "Y", " ", "s", "e", "q", "=", "1", "2", "6", " ", "|", " ", "C", "O", "N", "E", " ", "|", " ", "r", "=", "3", ".", "0", "deg", " ", "p", "=", "4", ".", "0", "deg", " ", "|", " ", "a", "t", "t", "_", "e", "r", "r", "=", "1", ".", "2", ".", "3", "deg">>],
      [rule |-> "bat", ln |-> <<"[", "a", "i", "r", "]", " ", "P", "X", "4", " ", "B", "A", "T", " ", "V", "=", "1", "5", "8", "0", "0", "m", "V", " ", "I", "=", "-", "1", "2", "0", "0", "m", "A", " ", "r", "e", "m", "=", "-", "1", "%">>],
      [rule |-> "gate", ln |-> <<"[", "a", "i", "r", "]", " ", "P", "X", "4", " ", "g", "a", "t", "e", ":", " ", "h", "b", "=", "1", " ", "a", "r", "m", "e", "d", "=", "1", " ", "e", "k", "f", "=", "1", " ", "c", "o", "n", "e", "=", "1">>] }

\* a line that carries the texts of the rules of parts, in that order
RECURSIVE JoinTexts(_, _)
JoinTexts(texts, parts) ==
    IF parts = <<>> THEN <<>>
    ELSE IF Len(parts) = 1 THEN texts[parts[1]]
    ELSE texts[parts[1]] \o <<" ">> \o JoinTexts(texts, Tail(parts))

\* one rule's text, or two different rules' texts in either order
RuleParts(rules) ==
    { <<a>> : a \in rules } \cup { <<a, b>> : <<a, b>> \in { x \in rules \X rules : x[1] # x[2] } }

FromText(parts) == [rule |-> "text", parts |-> parts]
RuleInputs(texts, variants, other) ==
    { [ln |-> JoinTexts(texts, parts), sent |-> FromText(parts)] :
          parts \in RuleParts(DOMAIN texts) }
    \cup { [ln |-> v.ln, sent |-> FromText(<<v.rule>>)] : v \in variants }
    \cup { [ln |-> other, sent |-> FromText(<<>>)] }

\* Relay counter lines of a given direction and queue depth (454-455)
RelayCounterLine(direction, queue) ==
    <<"[", "m", "a", "v", "_", "r", "e", "l", "a", "y", "]", " ">> \o direction \o <<":", " ", "q", "u", "e", "u", "e", "=">> \o FormatInt(queue)
        \o <<" ", "t", "o", "t", "a", "l", "=", "1", "2", "3", "4", " ", "l", "a", "s", "t", "=", "L", "A", "S", "E", "R", "_", "P", "E", "R", "M", "I", "T">>
RelayQueueDepths == {20, 21}
RelayCounterInputs ==
    { [ln |-> RelayCounterLine(d, q),
       sent |-> [rule |-> "text", parts |-> <<"counter">>, queue |-> q]] :
          d \in {<<"U", "D", "P", "-", ">", "S", "E", "R">>, <<"S", "E", "R", "-", ">", "U", "D", "P">>}, q \in RelayQueueDepths }

GroundRuleInputs == RuleInputs(GroundRuleTexts, {}, <<"G", "r", "o", "u", "n", "d", " ", "n", "o", "d", "e", " ", "s", "t", "a", "r", "t", "e", "d">>)
AirRuleInputs == RuleInputs(AirRuleTexts, AirRuleVariants, <<"[", "a", "i", "r", "]", " ", "l", "i", "s", "t", "e", "n", "i", "n", "g">>)
RelayRuleInputs ==
    RuleInputs(RelayRuleTexts, {}, <<"[", "m", "a", "v", "_", "r", "e", "l", "a", "y", "]", " ", "l", "i", "s", "t", "e", "n", "i", "n", "g">>)
        \cup RelayCounterInputs

\* GRANT lines only
GrantInputs ==
    { [ln |-> AirLine(v), sent |-> [rule |-> "grant", v |-> v]] :
          v \in { w \in AirValues : w.roll = 0 /\ w.pitch = 0 } }

\* the lines a role process of the corpus can write
Inputs(c, r) ==
    CASE c = "values" /\ r = "ground" -> GroundInputs
      [] c = "values" /\ r = "air" -> AirInputs
      [] c = "rules" /\ r = "ground" -> GroundRuleInputs
      [] c = "rules" /\ r = "air" -> AirRuleInputs
      [] c = "rules" /\ r = "relay" -> RelayRuleInputs
      [] c = "grants" /\ r = "air" -> GrantInputs
      [] OTHER -> {}

\* ---- GroundParser.parse_line : parsers.py 103-208 ----
\* the number fields of the match; ok is FALSE when a float() raises
GroundSummaryData(mt) ==
    LET g == mt.groups
        cmd_w == py_float(g.cmd_w)
        rcv_mw == py_float(g.rcv_mw)
        eff == py_float(g.eff)
        rtt == py_float(g.rtt)
        Optional(name, key) ==
            IF HasGroup(mt, name) THEN (key :> py_float(g[name]).val) ELSE NoGroups
    IN  [ok |-> /\ cmd_w.ok /\ rcv_mw.ok /\ eff.ok /\ rtt.ok
                /\ \A name \in {"dist", "roll", "pitch"} :
                       HasGroup(mt, name) => py_float(g[name]).ok,
         data |-> [commanded_pct |-> py_int(g.pct),
                   commanded_w |-> cmd_w.val,
                   received_mw |-> rcv_mw.val,
                   efficiency_pct |-> eff.val,
                   link_quality_pct |-> py_int(g.lq),
                   rtt_ms |-> rtt.val,
                   grants_total |-> py_int(g.grants),
                   denies_total |-> py_int(g.denies)]
                  @@ Optional("dist", "distance_m")
                  @@ Optional("roll", "roll_deg")
                  @@ Optional("pitch", "pitch_deg")]

\* (grants / total) * 100.0, in thousandths
GrantRate(grants, total) == PyFloat((grants * 100000) \div total)

\* update_telemetry's append to the RTT buffer for a decoded float
ParsedRttAppend(samples, data) ==
    IF "rtt_ms" \in DOMAIN data /\ data.rtt_ms.v > 0
      THEN DequeAppend(samples, data.rtt_ms, RTT_MAXLEN)
      ELSE samples

\* what parse_line does with a line: the rule it applied, whether it raised,
\* the telemetry map after each of its update_telemetry calls, the RTT buffer,
\* and the arguments of its add_event calls
NoRule(samples) ==
    [rule |-> "none", raised |-> FALSE, tels |-> <<>>, samples |-> samples, evs |-> <<>>]

\* 120-155
GroundSummaryRule(mt, tel, samples) ==
    LET r == GroundSummaryData(mt) IN
    IF ~r.ok THEN [NoRule(samples) EXCEPT !.rule = "summary", !.raised = TRUE]
    ELSE LET first == DictUpdate(tel, r.data)
             total == r.data.grants_total.v + r.data.denies_total.v
         IN  [rule |-> "summary", raised |-> FALSE,
              tels |-> IF total > 0
                         THEN <<first, DictUpdate(first,
                                  [grant_rate_pct |-> GrantRate(r.data.grants_total.v, total)])>>
                         ELSE <<first>>,
              samples |-> ParsedRttAppend(samples, r.data),
              evs |-> <<>>]

\* 159-172
GroundDenyRule(mt, tel, samples) ==
    [NoRule(samples) EXCEPT
       !.rule = "deny",
       !.evs = <<EventOf("WARN", "ground", "DENY_RECEIVED",
                         <<"Seq", mt.groups.seq, mt.groups.reason>>)>>]

\* 177-190
GroundRampRule(mt, tel, samples) ==
    LET g == mt.groups IN
    [NoRule(samples) EXCEPT
       !.rule = "ramp",
       !.tels = <<DictUpdate(tel,
                    [ramp_level_current |-> py_int(g.current),
                     ramp_level_total |-> py_int(g.total),
                     ramp_level_str |->
                         PyStr(FormatInt(DecimalValue(g.current)) \o <<"/">>
                                 \o FormatInt(DecimalValue(g.total)))])>>]

\* 194-207
GroundBatteryRule(mt, tel, samples) ==
    LET g == mt.groups IN
    [NoRule(samples) EXCEPT
       !.rule = "battery",
       !.tels = <<DictUpdate(tel,
                    [voltage_mv |-> py_int(g.voltage),
                     current_ma |-> py_int_signed(g.current),
                     temp_cdeg |-> py_int(g.temp)])>>]

GroundParseResult(ln, tel, samples) ==
    LET fm == FirstMatch(GroundPatterns, ln, 1)
        k == fm.k
    IN
    IF k = 0 THEN NoRule(samples)
    ELSE LET mt == fm.mt IN
         CASE GroundRules[k] = "summary" -> GroundSummaryRule(mt, tel, samples)
           [] GroundRules[k] = "deny" -> GroundDenyRule(mt, tel, samples)
           [] GroundRules[k] = "ramp" -> GroundRampRule(mt, tel, samples)
           [] GroundRules[k] = "battery" -> GroundBatteryRule(mt, tel, samples)

\* ---- AirParser.parse_line : parsers.py 304-435 ----
GRANT_EVENT_THROTTLE_SECONDS == 5
\* time.time(), in ticks: the clock reads a time long after the epoch, at which
\* last_grant_event_time starts
EpochTicks == 1000
UnixTime == EpochTicks + now

AirGrantData(mt) ==
    LET g == mt.groups
        dist == py_float(g.dist)
        roll == py_float(g.roll)
        pitch == py_float(g.pitch)
    IN  [ok |-> dist.ok /\ roll.ok /\ pitch.ok,
         data |-> [granted |-> PyBool(TRUE),
                   deny_reason |-> PyNone,
                   distance_m |-> dist.val,
                   roll_deg |-> roll.val,
                   pitch_deg |-> pitch.val,
                   seq |-> py_int(g.seq)]]

\* the cone check with the boundary counted as a violation
ConeViolationAtBoundary(roll, pitch) ==
    PyBool(roll.v * roll.v + pitch.v * pitch.v >= 144 * 1000 * 1000)

\* (roll**2 + pitch**2)**0.5 > 12.0, on thousandths
ConeViolation(roll, pitch) == PyBool(roll.v * roll.v + pitch.v * pitch.v > 144 * 1000 * 1000)

\* what AirParser.parse_line does with a line; last is the throttle timestamp
\* it leaves
NoAirRule(last) ==
    [rule |-> "none", raised |-> FALSE, tels |-> <<>>, evs |-> <<>>, last |-> last]

\* a throttle that lets every line through
ThrottleAlwaysOpen(current_time, last) == TRUE

\* 337-340: time_since_last_event >= self.grant_event_throttle_seconds
GrantThrottleOpen(current_time, last) ==
    current_time - last >= GRANT_EVENT_THROTTLE_SECONDS * TicksPerSecond

\* 313-346
AirGrantRule(mt, tel, last) ==
    LET r == AirGrantData(mt) IN
    IF ~r.ok THEN [NoAirRule(last) EXCEPT !.rule = "grant", !.raised = TRUE]
    ELSE LET first == DictUpdate(tel, r.data)
             log == GrantThrottleOpen(UnixTime, last)
         IN  [rule |-> "grant", raised |-> FALSE,
              tels |-> <<first, DictUpdate(first,
                          [cone_violation |-> ConeViolation(r.data.roll_deg,
                                                            r.data.pitch_deg)])>>,
              evs |-> IF log
                        THEN <<EventOf("INFO", "air", "GRANT",
                                       <<"Seq", mt.groups.seq, mt.groups.cmd_w,
                                         mt.groups.dist>>)>>
                        ELSE <<>>,
              last |-> IF log THEN UnixTime ELSE last]

\* 351-384: the first update_telemetry has been made when float(att_err)
\* raises
AirDenyRule(mt, tel, last) ==
    LET g == mt.groups
        roll == py_float(g.roll)
        pitch == py_float(g.pitch)
        has_att == HasGroup(mt, "att_err")
        att == IF has_att THEN py_float(g.att_err) ELSE [ok |-> TRUE, val |-> PyNone]
        first == DictUpdate(tel, [granted |-> PyBool(FALSE),
                                  deny_reason |-> PyStr(g.reason),
                                  roll_deg |-> roll.val,
                                  pitch_deg |-> pitch.val,
                                  seq |-> py_int(g.seq)])
    IN  IF ~(roll.ok /\ pitch.ok)
          THEN [NoAirRule(last) EXCEPT !.rule = "deny", !.raised = TRUE]
        ELSE IF ~att.ok
          THEN [NoAirRule(last) EXCEPT !.rule = "deny", !.raised = TRUE, !.tels = <<first>>]
        ELSE [NoAirRule(last) EXCEPT
                !.rule = "deny",
                !.tels = IF has_att
                           THEN <<first, DictUpdate(first,
                                    [cone_violation |-> PyBool(att.val.v > 12 * 1000)])>>
                           ELSE <<first>>,
                !.evs = <<EventOf("WARN", "air", g.reason,
                                  IF has_att THEN <<"Seq", g.seq, g.reason, g.att_err>>
                                             ELSE <<"Seq", g.seq, g.reason>>)>>]

\* 386-391
AirAltRule(mt, tel, last) ==
    LET rel == py_float(mt.groups.rel) IN
    IF ~rel.ok THEN [NoAirRule(last) EXCEPT !.rule = "alt", !.raised = TRUE]
    ELSE [NoAirRule(last) EXCEPT
            !.rule = "alt", !.tels = <<DictUpdate(tel, [rel_alt_m |-> rel.val])>>]

\* 393-403
AirBatRule(mt, tel, last) ==
    LET g == mt.groups
        rem == py_int_signed(g.rem)
    IN  [NoAirRule(last) EXCEPT
           !.rule = "bat",
           !.tels = <<DictUpdate(tel,
                        [voltage_mv |-> py_int(g.v),
                         current_ma |-> py_int_signed(g.i),
                         battery_remaining_pct |-> IF rem.v < 0 THEN PyNone ELSE rem])>>]

\* 408-417
AirHomeRule(mt, tel, last) ==
    LET lat == py_float(mt.groups.lat)
        lon == py_float(mt.groups.lon)
    IN  IF ~(lat.ok /\ lon.ok) THEN [NoAirRule(last) EXCEPT !.rule = "home", !.raised = TRUE]
        ELSE [NoAirRule(last) EXCEPT
                !.rule = "home",
                !.tels = <<DictUpdate(tel, [home_lat_deg |-> lat.val,
                                            home_lon_deg |-> lon.val])>>]

\* 422-435
AirGateRule(mt, tel, last) ==
    [NoAirRule(last) EXCEPT
       !.rule = "gate",
       !.evs = IF mt.groups.cone = <<"0">>
                 THEN <<EventOf("WARN", "air", "PX4_CONE_VIOLATION",
                                <<"Attitude outside cone">>)>>
                 ELSE <<>>]

AirParseResult(ln, tel, last) ==
    LET fm == FirstMatch(AirPatterns, ln, 1)
        k == fm.k
    IN
    IF k = 0 THEN NoAirRule(last)
    ELSE LET mt == fm.mt IN
         CASE AirRules[k] = "grant" -> AirGrantRule(mt, tel, last)
           [] AirRules[k] = "deny" -> AirDenyRule(mt, tel, last)
           [] AirRules[k] = "alt" -> AirAltRule(mt, tel, last)
           [] AirRules[k] = "bat" -> AirBatRule(mt, tel, last)
           [] AirRules[k] = "home" -> AirHomeRule(mt, tel, last)
           [] AirRules[k] = "gate" -> AirGateRule(mt, tel, last)

\* ---- RelayParser.parse_line : parsers.py 483-547 ----
EVENT_THROTTLE_SECONDS == 5
HIGH_QUEUE_DEPTH == 20

\* a threshold that the depth 20 already exceeds
QueueTooDeepFrom20(queue) == queue.v >= HIGH_QUEUE_DEPTH

\* 523: if queue > 20
QueueTooDeep(queue) == queue.v > HIGH_QUEUE_DEPTH

\* 487-532
RelayCounterRule(mt, tel, last) ==
    LET g == mt.groups
        queue == py_int(g.queue)
        key_prefix == IF g.direction = <<"U", "D", "P", "-", ">", "S", "E", "R">> THEN "relay_udp_to_ser"
                                                  ELSE "relay_ser_to_udp"
        data == IF key_prefix = "relay_udp_to_ser"
                  THEN [relay_udp_to_ser_total |-> py_int(g.total),
                        relay_udp_to_ser_queue |-> queue,
                        relay_udp_to_ser_last_msg |-> PyStr(g.msg_type)]
                  ELSE [relay_ser_to_udp_total |-> py_int(g.total),
                        relay_ser_to_udp_queue |-> queue,
                        relay_ser_to_udp_last_msg |-> PyStr(g.msg_type)]
        log == UnixTime - last >= EVENT_THROTTLE_SECONDS * TicksPerSecond
    IN  [rule |-> "counter", raised |-> FALSE,
         tels |-> <<DictUpdate(tel, data)>>,
         evs |-> (IF log THEN <<EventOf("INFO", "relay", g.msg_type,
                                        <<"[mav_relay]", g.direction, g.queue, g.total,
                                          g.msg_type>>)>>
                         ELSE <<>>)
                 \o (IF QueueTooDeep(queue)
                       THEN <<EventOf("WARN", "relay", "HIGH_QUEUE_DEPTH",
                                      <<"queue depth", g.direction, g.queue>>)>>
                       ELSE <<>>),
         last |-> IF log THEN UnixTime ELSE last]

\* 537-547
RelayDropRule(mt, tel, last) ==
    [NoAirRule(last) EXCEPT
       !.rule = "drop",
       !.evs = <<EventOf("INFO", "relay", "PACKET_DROPPED", <<"Dropped", mt.groups.msg_type>>)>>]

RelayParseResult(ln, tel, last) ==
    LET fm == FirstMatch(RelayPatterns, ln, 1)
        k == fm.k
    IN
    IF k = 0 THEN NoAirRule(last)
    ELSE LET mt == fm.mt IN
         CASE RelayRules[k] = "counter" -> RelayCounterRule(mt, tel, last)
           [] RelayRules[k] = "drop" -> RelayDropRule(mt, tel, last)

\* the telemetry keys the summary and GRANT rules write, with the constructor's defaults
\* (state.py 26-30), and the same map after an Air DENY line
ParserTelemetry ==
    [commanded_pct |-> PyInt(0), commanded_w |-> PyFloat(0), received_mw |-> PyFloat(0),
     efficiency_pct |-> PyFloat(0), link_quality_pct |-> PyInt(0), rtt_ms |-> PyFloat(0),
     granted |-> PyBool(FALSE), deny_reason |-> PyNone, grants_total |-> PyInt(0),
     denies_total |-> PyInt(0), seq |-> PyInt(0), distance_m |-> PyFloat(0),
     roll_deg |-> PyFloat(0), pitch_deg |-> PyFloat(0)]
DeniedTelemetry ==
    [ParserTelemetry EXCEPT !.deny_reason = PyStr(<<"P", "X", "4", "_", "N", "O", "T", "_", "O", "K">>),
                            !.seq = PyInt(7)]

MaxLines == 2
MaxRuleLines == 2
MaxGrantLines == 3
LineBound == [values |-> MaxLines, rules |-> MaxRuleLines, grants |-> MaxGrantLines]

parseFrame ==
    <<status, session, lock, spc, sloc, snap, running, swaps,
      lastSwapNew, opsStarted, shutting_down, procVars, socat_installed, exits, taskVars,
      px4Vars, evlog, failedAt, session_id, madeId, returnedId, pctl, hookVars, pidVars, cbVars,
      monHist, corpus>>

\* async for line in self._async_readline(proc.stdout)  (supervisor.py 534):
\* the monitor of a role process, still in its read loop, gets the next line
\* of its stdout
readline ==
    /\ parsed
    /\ linesRead < LineBound[corpus]
    /\ linesRead' = linesRead + 1
    /\ \E r \in {"ground", "air", "relay"} \ monitor_ended :
         /\ reader' = r
         /\ \E inp \in Inputs(corpus, r) :
              /\ line' = inp.ln
              /\ sent' = inp.sent
    /\ parsed' = FALSE
    /\ parse_error' = FALSE
    /\ UNCHANGED <<telemetry, rtt_samples, events, errors, nextId, appendedAll, appendedErr,
                   telHist, last_grant_event_time, monitor_ended, last_event_time, applied,
                   grantTimes, now>>
    /\ UNCHANGED parseFrame

\* supervisor.py 541-550: try: await parser.parse_line(line) / except Exception:
\* add_event WARN server PARSE_ERROR.  What the monitor does after a parse_line
\* that raised or returned: the event it logs and whether its read loop ends
parse_line_unguarded(name, raised) ==
    [logs  |-> IF raised THEN <<EventOf("ERROR", "server", "MONITOR_ERROR",
                                        <<"Error monitoring", name>>)>>
               ELSE <<>>,
     ended |-> raised]
parse_line_guarded(name, raised) ==
    [logs  |-> IF raised THEN <<EventOf("WARN", "server", "PARSE_ERROR",
                                        <<"Failed to parse", name, "line">>)>>
               ELSE <<>>,
     ended |-> FALSE]

\* the events of a sequence of add_event calls, numbered from id on
NewEvents(ds, id) ==
    [i \in 1..Len(ds) |-> Event(id + i - 1, ds[i].level, ds[i].src, ds[i].code, ds[i].msg)]
RECURSIVE AddEvents(_, _)
AddEvents(evs, es) ==
    IF es = <<>> THEN evs ELSE AddEvents(add_event_events(evs, Head(es)), Tail(es))
RECURSIVE AddErrors(_, _)
AddErrors(errs, es) ==
    IF es = <<>> THEN errs ELSE AddErrors(add_event_errors(errs, Head(es)), Tail(es))

\* the add_event calls of one run of the loop body, in their order
AppendEvents(ds) ==
    LET es == NewEvents(ds, nextId) IN
    /\ events' = AddEvents(events, es)
    /\ errors' = AddErrors(errors, es)
    /\ appendedAll' = appendedAll \o es
    /\ appendedErr' = appendedErr \o SelectSeq(es, LAMBDA e : e.level \in ErrorLevels)
    /\ nextId' = nextId + Len(es)
    /\ grantTimes' = grantTimes
            \o [i \in 1..Len(SelectSeq(ds, LAMBDA d : d.src = "air" /\ d.code = "GRANT"))
                  |-> UnixTime]

\* No await of parse_line suspends: the store's lock is free whenever the
\* loop runs a task, so the line is decoded and merged, and a raise is
\* logged, in one run.
GroundParser_parse_line ==
    /\ ~parsed
    /\ reader = "ground"
    /\ \E r \in {GroundParseResult(line, telemetry, rtt_samples)} :
       \E g \in {parse_line_guarded("ground", r.raised)} :
         /\ parse_error' = r.raised
         /\ applied' = r.rule
         /\ telemetry' = IF r.tels = <<>> THEN telemetry ELSE Last(r.tels)
         /\ telHist' = telHist \o r.tels
         /\ rtt_samples' = r.samples
         /\ AppendEvents(r.evs \o g.logs)
         /\ monitor_ended' = IF g.ended THEN monitor_ended \cup {"ground"} ELSE monitor_ended
    /\ parsed' = TRUE
    /\ UNCHANGED <<last_grant_event_time, last_event_time, line, reader, sent, linesRead, now>>
    /\ UNCHANGED parseFrame

AirParser_parse_line ==
    /\ ~parsed
    /\ reader = "air"
    /\ \E r \in {AirParseResult(line, telemetry, last_grant_event_time)} :
       \E g \in {parse_line_guarded("air", r.raised)} :
         /\ parse_error' = r.raised
         /\ applied' = r.rule
         /\ telemetry' = IF r.tels = <<>> THEN telemetry ELSE Last(r.tels)
         /\ telHist' = telHist \o r.tels
         /\ last_grant_event_time' = r.last
         /\ AppendEvents(r.evs \o g.logs)
         /\ monitor_ended' = IF g.ended THEN monitor_ended \cup {"air"} ELSE monitor_ended
    /\ parsed' = TRUE
    /\ UNCHANGED <<rtt_samples, last_event_time, line, reader, sent, linesRead, now>>
    /\ UNCHANGED parseFrame

RelayParser_parse_line ==
    /\ ~parsed
    /\ reader = "relay"
    /\ \E r \in {RelayParseResult(line, telemetry, last_event_time)} :
       \E g \in {parse_line_guarded("relay", r.raised)} :
         /\ parse_error' = r.raised
         /\ applied' = r.rule
         /\ telemetry' = IF r.tels = <<>> THEN telemetry ELSE Last(r.tels)
         /\ telHist' = telHist \o r.tels
         /\ last_event_time' = r.last
         /\ AppendEvents(r.evs \o g.logs)
         /\ monitor_ended' = IF g.ended THEN monitor_ended \cup {"relay"} ELSE monitor_ended
    /\ parsed' = TRUE
    /\ UNCHANGED <<rtt_samples, last_grant_event_time, line, reader, sent, linesRead, now>>
    /\ UNCHANGED parseFrame

\* the clock moves while a monitor waits for the next line
MaxLineWait == 12
line_wait ==
    /\ parsed
    /\ linesRead < LineBound[corpus]
    /\ now < MaxLineWait
    /\ now' = now + 1
    /\ UNCHANGED <<telemetry, rtt_samples, events, errors, nextId, appendedAll, appendedErr,
                   telHist, parseVars>>
    /\ UNCHANGED parseFrame

InitParseWith(c, tels) ==
    /\ status = "RAMPING"
    /\ telemetry \in tels
    /\ events = <<>>
    /\ errors = <<>>
    /\ nextId = 1
    /\ appendedAll = <<>>
    /\ appendedErr = <<>>
    /\ rtt_samples = <<>>
    /\ session = None
    /\ lock = None
    /\ spc = [c2 \in StoreCallers |-> "idle"]
    /\ sloc = [c2 \in StoreCallers |-> NoLocals]
    /\ snap = [c2 \in StoreCallers |-> NoSnapshot]
    /\ running = None
    /\ telHist = <<telemetry>>
    /\ swaps = <<>>
    /\ lastSwapNew = "DISCONNECTED"
    /\ opsStarted = 0
    /\ px4_enabled = FALSE
    /\ socat_installed = TRUE
    /\ fn_init_for(c)
    /\ ws_broadcast = "ok"
    /\ supervisor_init
    /\ pc = [t \in SupTasks |-> IF t \in Monitors THEN "unborn" ELSE "absent"]

InitParse == InitParseWith("values", {ParserTelemetry, DeniedTelemetry})

NextParse ==
    \/ readline
    \/ GroundParser_parse_line
    \/ AirParser_parse_line

SpecParse == InitParse /\ [][NextParse]_vars

\* a reader (the WebSocket sender, a REST handler) takes telemetry snapshots
\* while the monitors decode lines.  parse_line makes its update_telemetry
\* calls in one run of the monitor: no critical section of the store awaits,
\* so the lock is free and no call suspends.
SnapshotReaders == {"c1"}
MaxSnapshots == 1
SnapshotStep ==
    \E c \in SnapshotReaders :
        \/ opsStarted < MaxSnapshots /\ call_get_telemetry_snapshot(c)
        \/ AcquireLock(c)
        \/ get_telemetry_snapshot_body(c)
        \/ ReleaseLock(c)
NextSnap ==
    \/ readline
    \/ GroundParser_parse_line
    \/ AirParser_parse_line
    \/ SnapshotStep
InitSnap == InitParseWith("values", {ParserTelemetry})
SpecSnap == InitSnap /\ [][NextSnap]_vars

\* the three decoders on lines of one rule, of two rules, and of none
InitRules == InitParseWith("rules", {ParserTelemetry})
NextRules ==
    \/ readline
    \/ GroundParser_parse_line
    \/ AirParser_parse_line
    \/ RelayParser_parse_line
SpecRules == InitRules /\ [][NextRules]_vars

\* async for line in self._async_readline(proc.stdout): await parser.parse_line
\* (supervisor.py 534-541): the monitor of the air process, in its read loop,
\* gets a line of the process's stdout
air_monitor_readline(m) ==
    /\ SlotOf(m) = "air"
    /\ pc[m] = "reading"
    /\ running = None
    /\ readline

\* the program between two lines: a line that has been read is decoded in the
\* same run of the monitor, before any other task runs
BetweenLines == parsed /\ (UnattendedStep \/ ExitStep)

\* one unattended run whose air process writes GRANT lines
NextAirRun ==
    \/ BetweenLines
    \/ \E m \in Monitors : air_monitor_readline(m)
    \/ AirParser_parse_line
InitAirRun == InitWithLines({"start1"}, BOOLEAN, {TRUE}, "grants")
SpecAirRun == InitAirRun /\ [][NextAirRun]_vars

\* the Air decoder on GRANT lines that arrive at any times
InitGrants == InitParseWith("grants", {ParserTelemetry})
NextGrants ==
    \/ readline
    \/ line_wait
    \/ AirParser_parse_line
SpecGrants == InitGrants /\ [][NextGrants]_vars

(***************************************************************************)
(* Properties of the supervisor                                            *)
(***************************************************************************)
GroundMonitors == { ProcId("ground", s) : s \in StartReqs }

\* the ground process of monitor m exited nonzero while the status was
\* RAMPING and no stop_all was in progress
RampingCrash(m) ==
    /\ procState[m] = "exitN"
    /\ exitCtx[m] = [status |-> "RAMPING", stopping |-> FALSE]

\* monitor m has gone into the AUTO_LAND branch (it has made its landing
\* attempt) and has not ended
CrashHandling(m) == pc[m] \notin {"unborn", "created", "reading", "done"}

\* stop_all has just returned to its caller t
Returned(t) == pc[t] \in StopAllReturns /\ stack[t] = <<>> /\ running = t

AllStopped ==
    /\ status = "READY"
    /\ \A n \in Slots : processes[n] = None
    /\ monitor_tasks = <<>>
    /\ ~shutting_down

\* C1: a nonzero exit of the ground process while the status is RAMPING and
\* no stop_all is in progress leads to status SAFE, and once the crash
\* handling has finished the status is SAFE.
C1_CrashEndsSafe ==
    \A m \in GroundMonitors :
        /\ RampingCrash(m) ~> (status = "SAFE")
        /\ [](RampingCrash(m) /\ pc[m] = "done" => status = "SAFE")

\* C2: while the crash handler of a ground process that exited nonzero
\* during RAMPING is running (its own landing attempt made), no further
\* land() call is made.
C2_NoSecondLanding ==
    [][\A m \in GroundMonitors :
          RampingCrash(m) /\ CrashHandling(m) => landCalls' = landCalls]_vars

\* C3: a ground process that exited nonzero while a stop_all was in progress
\* never sends its monitor into the AUTO_LAND branch (landing attempt,
\* stop_all, READY, SAFE).
C3_NoCrashPathDuringStop ==
    \A m \in GroundMonitors :
        procState[m] = "exitN" /\ exitCtx[m].stopping => ~CrashHandling(m)

\* start request s is inside the start sequence of start_all (276-311)
InStartSequence(s) ==
    pc[s] \in {"sa_session", "sa_connect_wait", "sa_socat", "sa_relay", "sa_air",
               "sa_ground", "sa_spawn_relay", "sa_spawn_air", "sa_spawn_ground",
               "sa_ramping"}

\* C4: while one start request is in its start sequence no other start
\* request runs a start sequence (it is rejected).
C4_OneStartSequence ==
    \A s, o \in StartReqs : s # o => ~(InStartSequence(s) /\ InStartSequence(o))

\* C5: on a supervisor with no slot occupied and no monitor task, stop_all
\* does not raise, and at each of its returns the status is READY, every slot
\* is empty, no monitor is tracked and the flag is down; so a second call
\* ends in the state the first ended in.
C5_IdleStopAll ==
    /\ \A n \in Slots : processes[n] = None
    /\ monitor_tasks = <<>>
    /\ \A s \in StartReqs :
         /\ pc[s] # "sa_stop_raised"
         /\ Returned(s) => AllStopped

\* the second of two stop_all calls returns after the caller of the first
\* has finished
C5_Witness ==
    /\ pc["start1"] = "failed"
    /\ Returned("start2")
    /\ AllStopped

\* C6: every stop_all that is entered returns, and at its return the status
\* is READY, the four slots are empty, no monitor is tracked and the flag is
\* down.
C6_StopAllReturnsClean ==
    \A t \in SupTasks : InStopAll(t) ~> (Returned(t) /\ AllStopped)

\* the edges of the status state machine, with the edges of the drone-control
\* status callback (CONNECTING to READY, any status to SAFE)
StatusEdges ==
    {<<"DISCONNECTED", "CONNECTING">>, <<"CONNECTING", "RAMPING">>,
     <<"RAMPING", "STOPPING">>, <<"STOPPING", "READY">>, <<"RAMPING", "SAFE">>,
     <<"READY", "CONNECTING">>, <<"SAFE", "CONNECTING">>, <<"CONNECTING", "READY">>}
    \cup { <<s, "SAFE">> : s \in Statuses }

\* C11: every change of the status made by start_all, stop_all and the
\* monitors follows an edge of the status state machine.
C11_StatusEdges ==
    [][status' # status => <<status, status'>> \in StatusEdges]_vars

\* C12: the step of start_all that sets CONNECTING (279-288) is taken only
\* when the status is READY, SAFE or DISCONNECTED.
C12_StartOnlyFromRest ==
    [][\A s \in StartReqs :
          pc[s] = "sa_session" /\ pc'[s] # "sa_session"
              => status \in {"READY", "SAFE", "DISCONNECTED"}]_vars

\* process p has been spawned
Born(p) == procState[p] # "unborn"

\* C13: a start_all spawns the bridge, then relay, then air, then ground,
\* each role process with a monitor task of its own; RAMPING is set and the
\* call returns only after the three role processes were spawned, and the id
\* it returns is the id of the session record.
C13_StartOrder ==
    /\ \A s \in StartReqs :
         /\ Born(ProcId("ground", s)) => Born(ProcId("air", s))
         /\ Born(ProcId("air", s)) => Born(ProcId("relay", s))
         /\ Born(ProcId("relay", s)) => \E b \in SocatProcs : Born(b)
         /\ \A r \in Roles : Born(ProcId(r, s)) <=> pc[ProcId(r, s)] # "unborn"
         /\ pc[s] = "started" =>
               /\ \A r \in Roles : Born(ProcId(r, s))
               /\ returnedId[s] = session
    /\ status = "RAMPING" =>
         \E s \in StartReqs : \A r \in Roles : Born(ProcId(r, s))

\* a start_all has returned its session id with the three role processes
\* alive and status RAMPING
C13_Witness ==
    /\ pc["start1"] = "started"
    /\ status = "RAMPING"
    /\ returnedId["start1"] = SessionId(0)
    /\ \A r \in Roles : Alive(ProcId(r, "start1"))

\* the steps of the start sequence after step x
LaterSteps(x) ==
    CASE x = "socat" -> {"relay", "air", "ground"}
      [] x = "relay" -> {"air", "ground"}
      [] x = "air"   -> {"ground"}
      [] OTHER       -> {}

C16_AnyCrashLandsSafe ==
    \A m \in Monitors :
        RampingCrash(m) /\ pc[m] = "done" =>
            /\ <<"ERROR", SlotOf(m), "PROCESS_CRASH">> \in evlog
            /\ landCalls >= 1
            /\ status = "SAFE"

\* C17: two start_all calls never generate the same session id.
C17_SessionIdsUnique ==
    \A s, o \in StartReqs :
        s # o /\ madeId[s] # None /\ madeId[o] # None => madeId[s] # madeId[o]

\* the statements of stop_all in program order (a task blocked on the gather
\* of itself is at the gather)
StopAllRank(l) ==
    CASE l = "so_stop_ground" -> 1
      [] l = "so_stop_air"    -> 2
      [] l = "so_stop_relay"  -> 3
      [] l = "so_stop_link"   -> 4
      [] l = "so_cancel"      -> 5
      [] l \in {"so_gather", "stuck"} -> 6
      [] l = "so_pkill"       -> 7

\* the statement of stop_all task t is at, or will return to from the
\* _stop_process / _stop_virtual_elrs_link it is inside
StopAllPos(t) == IF Len(stack[t]) = 1 THEN pc[t] ELSE Head(stack[t])

\* C14: a stop_all sets STOPPING when it is entered, goes through ground,
\* air, relay, bridge, cancel, gather in that order, has set READY when it
\* returns, and sets READY only when every monitor task has finished.
C14_StopAllOrder ==
    [][\A t \in SupTasks :
          /\ ~InStopAll(t) /\ InStopAll(t)' => status' = "STOPPING"
          /\ InStopAll(t) /\ InStopAll(t)' =>
                \/ StopAllRank(StopAllPos(t)') - StopAllRank(StopAllPos(t)) \in {0, 1}
                \/ pc[t] = "so_cancel" /\ monitor_tasks = <<>> /\ pc'[t] = "so_pkill"
          /\ InStopAll(t) /\ Returned(t)' =>
                /\ status' = "READY"
                /\ \A m \in Monitors : pc[m] \in {"unborn", "done"}]_vars

(***************************************************************************)
(* Properties of the Shared State Store (checked under SpecStore)          *)
(***************************************************************************)
IsWarnOrError(e) == e.level \in {"WARN", "ERROR"}
IsStatusChange(e) == e.code = "STATUS_CHANGE"

\* C7: the all-events buffer never holds more than 500 entries and the error
\* buffer never more than 50, and each buffer is exactly the most recent
\* entries appended to it, in append order (a full buffer drops its oldest).
C7_BuffersBoundedFifo ==
    /\ Len(events) <= EVENTS_MAXLEN
    /\ Len(errors) <= ERRORS_MAXLEN
    /\ events = LastN(appendedAll, EVENTS_MAXLEN)
    /\ errors = LastN(appendedErr, ERRORS_MAXLEN)

\* both buffers are full and have each evicted at least one entry
C7_Witness ==
    /\ Len(appendedAll) > EVENTS_MAXLEN
    /\ Len(appendedErr) > ERRORS_MAXLEN
    /\ Len(events) = EVENTS_MAXLEN
    /\ Len(errors) = ERRORS_MAXLEN

\* C8: the error buffer is exactly the most recent (at most 50) WARN and ERROR
\* events appended since the last session reset, it never holds an INFO event,
\* and the events held by both buffers are in the same relative order in both.
C8_ErrorBufferContents ==
    LET errIds == {errors[i].id : i \in DOMAIN errors}
        evIds == {events[i].id : i \in DOMAIN events}
        InErrors(e) == e.id \in errIds
        InEvents(e) == e.id \in evIds
    IN /\ errors = LastN(SelectSeq(appendedAll, IsWarnOrError), ERRORS_MAXLEN)
       /\ \A i \in DOMAIN errors : errors[i].level # "INFO"
       /\ SelectSeq(events, InErrors) = SelectSeq(errors, InEvents)

\* the error buffer has evicted, holds WARN and ERROR events, and the all-events
\* buffer holds INFO events that the error buffer does not
C8_Witness ==
    /\ Len(appendedErr) > ERRORS_MAXLEN
    /\ \E i \in DOMAIN errors : errors[i].level = "WARN"
    /\ \E i \in DOMAIN errors : errors[i].level = "ERROR"
    /\ \E i \in DOMAIN events : events[i].level = "INFO"

\* C9: a returned snapshot equals the telemetry map as it stood after the
\* merges (update_telemetry, update_laser_telemetry, start_session) completed
\* when it was taken, which include every merge completed
\* before the call began, and merges made later do not change it.
C9_SnapshotIsCompletedPrefix ==
    \A c \in StoreCallers :
        snap[c].set =>
            /\ snap[c].began <= snap[c].idx
            /\ snap[c].idx <= Len(telHist)
            /\ SnapView(snap[c]) = telHist[snap[c].idx]

\* a snapshot taken after one merge and followed by a merge that changed the map
C9_Witness ==
    \E c \in StoreCallers :
        /\ snap[c].set
        /\ snap[c].idx > 1
        /\ Len(telHist) > snap[c].idx
        /\ telemetry # snap[c].val

\* C10: the status is changed only by set_status swaps; each swap sets the
\* status to the argument, and each set_status call appends exactly one INFO
\* STATUS_CHANGE event naming the status held just before the swap and the new
\* one, also when the two are equal.
C10_SetStatusEmitsChange ==
    LET sc == SelectSeq(appendedAll, IsStatusChange)
        pending == {c \in StoreCallers :
                       \/ spc[c] = "ss_unlock"
                       \/ spc[c] \in {"ae_lock", "ae_body"} /\ sloc[c].code = "STATUS_CHANGE"}
    IN /\ status = lastSwapNew
       /\ \A c \in StoreCallers : spc[c] = "ss_unlock" => status = sloc[c].new_status
       /\ \A i \in 2..Len(swaps) : swaps[i][1] = swaps[i-1][2]
       /\ Len(sc) + Cardinality(pending) = Len(swaps)
       /\ \A i \in 1..Len(sc) :
            /\ i <= Len(swaps)
            /\ sc[i].level = "INFO"
            /\ sc[i].msg = StatusChangeMsg(swaps[i][1], swaps[i][2])

\* a completed set_status whose new status equals the old one, event recorded
C10_Witness ==
    /\ \A c \in StoreCallers : spc[c] = "idle"
    /\ \E i \in DOMAIN swaps : swaps[i][1] = swaps[i][2]
    /\ Len(SelectSeq(appendedAll, IsStatusChange)) = Len(swaps)

\* C18: when start_session's body has run, the session id is the one passed
\* in, the all-events, error and RTT buffers are empty and the telemetry map
\* equals the map a freshly constructed store holds (same keys, same values);
\* the body runs as one step under the lock.
C18_StartSessionResets ==
    [][\A c \in StoreCallers :
         spc[c] = "st_body" /\ spc'[c] = "st_unlock" =>
             /\ lock = c
             /\ session' = sloc[c].session_id
             /\ events' = <<>>
             /\ errors' = <<>>
             /\ rtt_samples' = <<>>
             /\ telemetry' = DefaultTelemetry]_vars

(***************************************************************************)
(* Properties of calculate_rtt_percentiles (checked under SpecRtt)         *)
(***************************************************************************)
\* the sample of rank k (from 0) of S: the value with at most k samples
\* below it and more than k samples not above it
RankValue(S, k) ==
    CHOOSE x \in { S[i] : i \in DOMAIN S } :
        /\ Cardinality({ i \in DOMAIN S : S[i] < x }) <= k
        /\ k < Cardinality({ i \in DOMAIN S : S[i] <= x })

\* the q-th percentile of S by linear interpolation between the two closest
\* ranks, in hundredths
InterpolatedPercentile(S, q) ==
    LET n == Len(S)
        lo == ((n - 1) * q) \div 100
        w == ((n - 1) * q) % 100
        hi == IF w = 0 THEN lo ELSE lo + 1
    IN  (100 - w) * RankValue(S, lo) + w * RankValue(S, hi)

\* C19: a call of calculate_rtt_percentiles returns (0, 0) when fewer than 10
\* samples are buffered and otherwise the 95th and 99th percentile, by linear
\* interpolation between closest ranks, of exactly the samples in the buffer
\* at the call; it leaves the buffer alone, and it never runs while an
\* update_telemetry or a start_session is inside its critical section.
C19_RttPercentiles ==
    [][\A c \in StoreCallers :
         pctl'[c] # pctl[c] =>
             /\ Len(rtt_samples) < RTT_MIN_SAMPLES => Last(pctl'[c]) = <<0, 0>>
             /\ Len(rtt_samples) >= RTT_MIN_SAMPLES =>
                    Last(pctl'[c]) = <<InterpolatedPercentile(rtt_samples, 95),
                                       InterpolatedPercentile(rtt_samples, 99)>>
             /\ rtt_samples' = rtt_samples
             /\ lock = None
             /\ \A o \in StoreCallers : spc[o] \notin {"ut_body", "st_body"}]_vars

\* a caller got interpolated percentiles of a buffer that another caller's
\* update_telemetry had filled up to the tenth sample
C19_Witness ==
    \E c \in StoreCallers :
        /\ pctl[c] # <<>>
        /\ Len(rtt_samples) = RTT_MIN_SAMPLES
        /\ Last(rtt_samples) = 5
        /\ Last(pctl[c]) = <<InterpolatedPercentile(rtt_samples, 95),
                             InterpolatedPercentile(rtt_samples, 99)>>
        /\ Last(pctl[c])[1] % 100 # 0
        /\ Last(pctl[c])[1] < Last(pctl[c])[2]

C21_ConeViolation ==
    parsed /\ sent.rule = "grant" =>
        /\ "cone_violation" \in DOMAIN telemetry
        /\ telemetry.cone_violation =
               PyBool(sent.v.roll * sent.v.roll + sent.v.pitch * sent.v.pitch > 144000000)
        /\ sent.v.roll = 0 /\ sent.v.pitch = 0 => telemetry.cone_violation = PyBool(FALSE)
        /\ sent.v.roll = 10000 /\ sent.v.pitch = 10000 => telemetry.cone_violation = PyBool(TRUE)
        /\ sent.v.roll = 12000 /\ sent.v.pitch = 0 => telemetry.cone_violation = PyBool(FALSE)

\* a GRANT line on the boundary cleared the violation that a (10, 10) line
\* had set
C21_Witness ==
    /\ parsed
    /\ sent.rule = "grant"
    /\ sent.v.roll = 12000
    /\ sent.v.pitch = 0
    /\ telemetry.cone_violation = PyBool(FALSE)
    /\ \E i \in DOMAIN telHist :
         /\ "cone_violation" \in DOMAIN telHist[i]
         /\ telHist[i].cone_violation = PyBool(TRUE)
         /\ telHist[i].roll_deg = PyFloat(10000)
         /\ telHist[i].pitch_deg = PyFloat(10000)

(***************************************************************************)
(* Properties of the broadcast hook (checked under SpecHook)               *)
(***************************************************************************)
StoreLabels ==
    {"idle", "ae_hook"} \cup LockLabels \cup UnlockLabels
        \cup {"ae_body", "ss_body", "ut_body", "ul_body", "gs_body", "st_body"}

\* C22: add_event calls the hook only when it no longer holds the lock and
\* has the event in the buffer; a hook that raises leaves no caller outside
\* its normal positions, and the lock is never left held by a caller that is
\* idle or at the hook.
C22_HookAfterRelease ==
    /\ \A i \in DOMAIN hookLog : hookLog[i].lock = None /\ hookLog[i].recorded
    /\ \A c \in StoreCallers : spc[c] \in StoreLabels
    /\ \A c \in StoreCallers : lock = c => spc[c] \notin {"idle", "ae_hook"}
    /\ ws_broadcast = "none" => hookLog = <<>>

\* after a hook raised, a second event was recorded and handed to the hook,
\* and every caller is idle again
C22_Witness ==
    /\ ws_broadcast = "raises"
    /\ Len(hookLog) >= 2
    /\ hookLog[1].raised
    /\ hookLog[1].id < hookLog[2].id
    /\ \E i \in DOMAIN events : events[i].id = hookLog[2].id
    /\ \A c \in StoreCallers : spc[c] = "idle"
    /\ lock = None

\* the callbacks of phase p whose tasks have not run yet
PendingLogs(p) ==
    Cardinality({i \in DOMAIN cbTasks : cbTasks[i].phase = p})

\* every callback has one INFO PX4 event of its phase, appended or still to be
\* appended by its _log task
C23_OneEventPerCallback ==
    \A p \in Px4Phases : px4Logged[p] + PendingLogs(p) = px4Emitted[p]

\* the step in which the set_status task of a callback runs
StatusTaskRuns ==
    /\ cbTasks # <<>>
    /\ cbTasks' = Tail(cbTasks)
    /\ StatusOfPhase(Head(cbTasks).phase) # None

\* a connected callback received at CONNECTING sets READY, a disconnected
\* callback sets SAFE
C23_DrivesStatus ==
    StatusTaskRuns =>
        /\ (Head(cbTasks).phase = "PX4_CONNECTED" /\ Head(cbTasks).at = "CONNECTING")
              => status' = "READY"
        /\ Head(cbTasks).phase = "PX4_DISCONNECTED" => status' = "SAFE"

\* a connected callback received at RAMPING or STOPPING leaves the status
C23_IgnoredWhileRunning ==
    (StatusTaskRuns /\ Head(cbTasks).phase = "PX4_CONNECTED"
                    /\ Head(cbTasks).at \in {"RAMPING", "STOPPING"})
        => status' = status

\* C23: each status callback of the drone control gets exactly one INFO PX4
\* event of its phase; a connected phase takes the status from CONNECTING to
\* READY and a disconnected phase takes it to SAFE; a connected callback
\* received while the status is RAMPING or STOPPING does not change the status
C23_Px4StatusCallback ==
    [][C23_OneEventPerCallback' /\ C23_DrivesStatus /\ C23_IgnoredWhileRunning]_vars
(***************************************************************************)
(* Properties of the monitor's read loop (checked under SpecParse)         *)
(***************************************************************************)
\* the step in which parse_line raises on the line just read
ParseRaises == ~parsed /\ parsed' /\ parse_error'

StreamCloses(m) == pc[m] = "reading" /\ pc'[m] # "reading" /\ m \notin cancelReq

\* monitor m ends in this step
MonitorEnds(m) == pc[m] \notin {"unborn", "done"} /\ pc'[m] = "done"

\* C25: when the output stream of its process closes, the monitor records
\* exactly one exit event, INFO PROCESS_EXIT for exit code 0 and ERROR
\* PROCESS_CRASH otherwise; and whenever a monitor task ends (clean exit,
\* crash, exception, cancellation) the slot of its role is empty
C25_ExitEventAndSlot ==
    [][\A m \in Monitors :
         /\ StreamCloses(m) =>
              exitEvents'[m] =
                 <<IF procState[m] = "exit0" THEN <<"INFO", SlotOf(m), "PROCESS_EXIT">>
                   ELSE <<"ERROR", SlotOf(m), "PROCESS_CRASH">> >>
         /\ MonitorEnds(m) => processes'[SlotOf(m)] = None]_vars
\* monitor m, waiting for the next line, gets the CancelledError of stop_all
CancelledWhileReading(m) == pc[m] = "reading" /\ m \in cancelReq /\ pc'[m] = "done"

\* C26: a monitor task cancelled by stop_all while it waits for the next
\* output line does no crash handling: no PROCESS_CRASH or other event, no
\* landing attempt, no stop operation (no signal, no slot but its own
\* touched) and no status change; it only clears its slot and ends
C26_CancelledMonitorOnlyClears ==
    [][\A m \in Monitors : CancelledWhileReading(m) =>
          /\ evlog' = evlog
          /\ exitEvents' = exitEvents
          /\ landCalls' = landCalls
          /\ status' = status
          /\ shutting_down' = shutting_down
          /\ procState' = procState
          /\ processes' = [processes EXCEPT ![SlotOf(m)] = None]
          /\ stack'[m] = <<>>]_vars

\* the relay monitor was cancelled at its readline while its process was
\* gone with a nonzero exit code, and recorded nothing
C26_Witness ==
    \E m \in Monitors :
        /\ m \in cancelledReading
        /\ pc[m] = "done"
        /\ procState[m] = "exitN"
        /\ exitEvents[m] = <<>>
        /\ processes[SlotOf(m)] = None
(***************************************************************************)
(* Properties of _stop_process (checked under Spec)                        *)
(***************************************************************************)
InStopProcess(l) == l \in {"sp_poll", "sp_kill"}

\* C27: _stop_process always returns after at most 50 exit polls (StopPolls
\* in the model).  With the slot empty or the process exited it sends no
\* signal; a process that exits within the polls gets INFO PROCESS_STOP and
\* no kill signal; one that is alive after the last poll gets the group kill
\* and WARN PROCESS_KILL.  In every case the slot is empty on return and the
\* call ends by returning to its caller, never by an exception
C27_StopProcessReturns ==
    [][\A t \in SupTasks :
         \* stop_all's call returns at once: nothing to stop, no signal
         /\ \A r \in Roles :
              (pc[t] = "so_stop_" \o r /\ pc'[t] = AfterStop(r)) =>
                 /\ processes[r] = None \/ ~Alive(processes[r])
                 /\ loc'[t].trace = <<>>
                 /\ procState' = procState
                 /\ processes'[r] = None
         \* the call enters the poll loop: the process was alive, SIGTERM sent
         /\ (~InStopProcess(pc[t]) /\ InStopProcess(pc'[t])) =>
                 /\ Alive(loc'[t].proc)
                 /\ loc'[t].trace = <<"SIGTERM">>
         /\ InStopProcess(pc[t]) => loc[t].polls <= StopPolls
         \* the call ends: by a return, with the slot empty
         /\ (InStopProcess(pc[t]) /\ ~InStopProcess(pc'[t])) =>
                 /\ pc'[t] = Head(stack[t])
                 /\ stack'[t] = Tail(stack[t])
                 /\ processes'[loc[t].name] = None
                 /\ pc[t] = "sp_poll" =>
                        /\ ~Alive(loc[t].proc)
                        /\ procState' = procState
                        /\ loc'[t].trace = <<"SIGTERM", "PROCESS_STOP">>
                 /\ (pc[t] = "sp_kill" /\ Alive(loc[t].proc)) =>
                        /\ loc[t].polls = StopPolls
                        /\ procState'[loc[t].proc] # "alive"
                        /\ loc'[t].trace = <<"SIGTERM", "SIGKILL", "PROCESS_KILL">>]_vars
(***************************************************************************)
(* Properties of the RTT buffer (checked under SpecRtt)                    *)
(***************************************************************************)
\* caller c runs the critical section of update_telemetry in this step
UpdateTelemetryRuns(c) == spc[c] = "ut_body" /\ spc'[c] = "ut_unlock"

\* C28: update_telemetry appends a sample to the RTT buffer exactly when the
\* update has rtt_ms > 0 (no rtt_ms, or rtt_ms = 0: the buffer is left as it
\* is); the buffer never holds more than 100 samples and after every append
\* it is the most recent samples (at most 100) in arrival order.  Nothing
\* else writes the buffer but the reset of start_session
C28_RttBuffer ==
    [][/\ \A c \in StoreCallers : UpdateTelemetryRuns(c) =>
            LET d == sloc[c].data IN
            IF "rtt_ms" \in DOMAIN d /\ d.rtt_ms > 0
              THEN rtt_samples' = LastN(Append(rtt_samples, d.rtt_ms), RTT_MAXLEN)
              ELSE rtt_samples' = rtt_samples
       /\ Len(rtt_samples') <= RTT_MAXLEN
       /\ rtt_samples' # rtt_samples =>
            \/ \E c \in StoreCallers : UpdateTelemetryRuns(c)
            \/ rtt_samples' = <<>>]_vars

\* a full buffer has taken the sample 5 and dropped its oldest sample, and a
\* later update with rtt_ms = 0 has left it alone
C28_Witness ==
    /\ Len(rtt_samples) = RTT_MAXLEN
    /\ rtt_samples[1] = 6
    /\ rtt_samples[RTT_MAXLEN - 1] = 3 * RTT_MAXLEN
    /\ rtt_samples[RTT_MAXLEN] = 5
    /\ telemetry.rtt_ms = 0
    /\ \A c \in StoreCallers : spc[c] = "idle"

(***************************************************************************)
(* Properties of the decoders' rule chains (checked under SpecRules)       *)
(***************************************************************************)
\* the priority order of each decoder's rules
RulePriority ==
    [ground |-> <<"summary", "deny", "ramp", "battery">>,
     air |-> <<"grant", "deny", "alt", "bat", "home", "gate">>,
     relay |-> <<"counter", "drop">>]

\* the first rule in order among those whose text the line carries
FirstByPriority(order, parts) ==
    LET carried == { i \in DOMAIN order : \E j \in DOMAIN parts : parts[j] = order[i] } IN
    IF carried = {} THEN "none"
    ELSE order[CHOOSE i \in carried : \A j \in carried : i <= j]

\* the telemetry keys a rule may write
RuleKeys ==
    [ground |->
       [summary |-> {"commanded_pct", "commanded_w", "received_mw", "efficiency_pct",
                     "link_quality_pct", "rtt_ms", "grants_total", "denies_total",
                     "distance_m", "roll_deg", "pitch_deg", "grant_rate_pct"},
        deny |-> {},
        ramp |-> {"ramp_level_current", "ramp_level_total", "ramp_level_str"},
        battery |-> {"voltage_mv", "current_ma", "temp_cdeg"},
        none |-> {}],
     air |->
       [grant |-> {"granted", "deny_reason", "distance_m", "roll_deg", "pitch_deg", "seq",
                   "cone_violation"},
        deny |-> {"granted", "deny_reason", "roll_deg", "pitch_deg", "seq", "cone_violation"},
        alt |-> {"rel_alt_m"},
        bat |-> {"voltage_mv", "current_ma", "battery_remaining_pct"},
        home |-> {"home_lat_deg", "home_lon_deg"},
        gate |-> {},
        none |-> {}],
     relay |->
       [counter |-> {"relay_udp_to_ser_total", "relay_udp_to_ser_queue",
                     "relay_udp_to_ser_last_msg", "relay_ser_to_udp_total",
                     "relay_ser_to_udp_queue", "relay_ser_to_udp_last_msg"},
        drop |-> {},
        none |-> {}]]

\* the level and source of the events a rule may append, and how many
RuleEvents ==
    [ground |->
       [summary |-> {}, deny |-> {<<"WARN", "ground">>}, ramp |-> {}, battery |-> {},
        none |-> {}],
     air |->
       [grant |-> {<<"INFO", "air">>}, deny |-> {<<"WARN", "air">>}, alt |-> {}, bat |-> {},
        home |-> {}, gate |-> {<<"WARN", "air">>}, none |-> {}],
     relay |->
       [counter |-> {<<"INFO", "relay">>, <<"WARN", "relay">>},
        drop |-> {<<"INFO", "relay">>}, none |-> {}]]

\* the keys whose value the step changes
KeysWritten ==
    { k \in DOMAIN telemetry' : k \notin DOMAIN telemetry \/ telemetry'[k] # telemetry[k] }

\* the events the step appends
Appended == SubSeq(appendedAll', Len(appendedAll) + 1, Len(appendedAll'))

\* parse_line runs on a line made of rule texts
ParsesText == ~parsed /\ parsed' /\ sent.rule = "text"

\* C29: parse_line applies the first rule in the decoder's priority order
\* whose text the line carries and no other: it writes only that rule's
\* telemetry keys, appends only that rule's events (or the monitor's
\* PARSE_ERROR when the rule raised), only the Ground summary rule touches the
\* RTT buffer, only the GRANT and counter rules their throttle timestamps;
\* a line that carries no rule's text leaves telemetry, both event buffers,
\* the RTT buffer, the status and the throttle timestamps unchanged
C29_FirstRuleOnly ==
    [][ParsesText =>
          LET rule == FirstByPriority(RulePriority[reader], sent.parts) IN
          /\ applied' = rule
          /\ DOMAIN telemetry \subseteq DOMAIN telemetry'
          /\ KeysWritten \subseteq RuleKeys[reader][rule]
          /\ \A i \in DOMAIN Appended :
                 <<Appended[i].level, Appended[i].src>> \in
                     RuleEvents[reader][rule]
                         \cup (IF parse_error' THEN {<<"WARN", "server">>} ELSE {})
          /\ Len(Appended) <= Cardinality(RuleEvents[reader][rule])
                                + (IF parse_error' THEN 1 ELSE 0)
          /\ rule # "summary" => rtt_samples' = rtt_samples
          /\ rule # "grant" => last_grant_event_time' = last_grant_event_time
          /\ rule # "counter" => last_event_time' = last_event_time
          /\ status' = status
          /\ rule = "none" =>
                UNCHANGED <<telemetry, events, errors, rtt_samples, status,
                            last_grant_event_time, last_event_time>>]_vars

\* a Ground line with the battery text before the deny text has had the deny
\* rule applied and not the battery rule, after an Air line with the gate text
\* before the altitude text had the altitude rule applied and not the gate rule
C29_Witness ==
    /\ parsed
    /\ linesRead = 2
    /\ reader = "ground"
    /\ sent = FromText(<<"battery", "deny">>)
    /\ applied = "deny"
    /\ "voltage_mv" \notin DOMAIN telemetry
    /\ "rel_alt_m" \in DOMAIN telemetry
    /\ Len(appendedAll) = 1
    /\ appendedAll[1].level = "WARN" /\ appendedAll[1].src = "ground"

(***************************************************************************)
(* Properties of the GRANT throttle (checked under SpecGrants)             *)
(***************************************************************************)
\* AirParser.parse_line runs on a GRANT line
ParsesGrant == ~parsed /\ parsed' /\ reader = "air" /\ sent.rule = "grant"

\* any two INFO GRANT events are at least five seconds apart
GrantEventsApart ==
    \A i, j \in DOMAIN grantTimes :
        i < j => grantTimes[j] - grantTimes[i] >= 5 * TicksPerSecond

\* an INFO GRANT event was appended less than five seconds ago
WithinThrottle ==
    grantTimes # <<>> /\ UnixTime - Last(grantTimes) < 5 * TicksPerSecond

\* C30: every GRANT line updates telemetry; any two INFO GRANT events of the
\* AirParser are at least 5 seconds apart; a GRANT line that arrives less
\* than 5 seconds after the last INFO GRANT event appends no event and leaves
\* last_grant_event_time unchanged
C30_GrantThrottle ==
    [][/\ GrantEventsApart'
       /\ ParsesGrant =>
            /\ Len(telHist') > Len(telHist)
            /\ telemetry'.granted = PyBool(TRUE)
            /\ telemetry'.seq = PyInt(sent.v.seq)
            /\ WithinThrottle =>
                 /\ appendedAll' = appendedAll
                 /\ events' = events
                 /\ last_grant_event_time' = last_grant_event_time]_vars

\* of three GRANT lines the first and the third appended an event, five
\* seconds or more apart, and the second none
C30_Witness ==
    /\ parsed
    /\ linesRead = 3
    /\ Len(telHist) = 7
    /\ Len(grantTimes) = 2
    /\ Len(appendedAll) = 2
    /\ grantTimes[2] = UnixTime
    /\ telHist[3].seq # telHist[5].seq
    /\ last_grant_event_time = grantTimes[2]

(***************************************************************************)
(* Properties of the decoders' WARN events (checked under SpecRules)       *)
(***************************************************************************)
\* the WARN events the step appends
AppendedWarns == SelectSeq(Appended, LAMBDA e : e.level = "WARN")

\* the queue depth a Relay counter line was written with (the example line of
\* RelayRuleTexts has 5)
QueueDepthSent == IF "queue" \in DOMAIN sent THEN sent.queue ELSE 5

\* the INFO event of the rule is held back by its throttle in this step
Throttled ==
    \/ reader = "air" /\ ~GrantThrottleOpen(UnixTime, last_grant_event_time)
    \/ reader = "relay" /\ UnixTime - last_event_time < EVENT_THROTTLE_SECONDS * TicksPerSecond

\* C31: every line to which the Air DENY rule is applied appends exactly one
\* WARN event (the rule's own, from air, unless a number of the line is
\* malformed), and every Relay counter line appends exactly one WARN relay
\* event when its queue depth exceeds 20 and no WARN when it is 20 or less,
\* whether or not the throttle holds the INFO event back
C31_WarnsNotThrottled ==
    [][ParsesText =>
          LET rule == FirstByPriority(RulePriority[reader], sent.parts) IN
          /\ (reader = "air" /\ rule = "deny") =>
                /\ Len(AppendedWarns) = 1
                /\ ~parse_error' => AppendedWarns[1].src = "air"
          /\ (reader = "relay" /\ rule = "counter") =>
                /\ QueueDepthSent > 20 =>
                      /\ Len(AppendedWarns) = 1
                      /\ AppendedWarns[1].src = "relay"
                      /\ AppendedWarns[1].code = "HIGH_QUEUE_DEPTH"
                /\ QueueDepthSent <= 20 => Len(AppendedWarns) = 0]_vars

\* a Relay counter line of depth 21 has appended its WARN and no INFO while
\* the throttle was closed by the counter line before it, whose depth was 20
C31_Witness ==
    /\ parsed
    /\ linesRead = 2
    /\ reader = "relay"
    /\ "queue" \in DOMAIN sent
    /\ sent.queue = 21
    /\ Len(appendedAll) = 2
    /\ appendedAll[1].level = "INFO" /\ appendedAll[1].src = "relay"
    /\ appendedAll[2].level = "WARN" /\ appendedAll[2].src = "relay"
    /\ Len(telHist) = 3
    /\ "relay_udp_to_ser_queue" \in DOMAIN telHist[2]
    /\ telHist[2].relay_udp_to_ser_queue = PyInt(20)
    /\ telemetry.relay_udp_to_ser_queue = PyInt(21)
(***************************************************************************)
(* The store's lock under concurrent callers                               *)
(***************************************************************************)
\* an operation is at the entry of its async with block
TriesToAcquire(c) == spc[c] \in LockLabels

\* C32: no store operation tries to acquire the store's lock while it already
\* holds it, and under concurrent callers of every operation of the store each
\* call that has started eventually returns (never a deadlock)
C32_NoDeadlock ==
    /\ [](\A c \in StoreCallers : TriesToAcquire(c) => lock # c)
    /\ \A c \in StoreCallers : (spc[c] # "idle") ~> (spc[c] = "idle")

\* both callers have gone through the lock and returned: a status was swapped
\* and its event logged by one, a pid written by the other
C32_Witness ==
    /\ \A c \in StoreCallers : spc[c] = "idle"
    /\ lock = None
    /\ Len(swaps) = 1
    /\ \E i \in DOMAIN events : events[i].code = "STATUS_CHANGE"
    /\ process_pids["air"] = "4321"
    /\ opsStarted = MaxOps

(***************************************************************************)
(* The status against the processes that are running                       *)
(***************************************************************************)
\* the role processes the supervisor has spawned that have not ended
AliveRoleProcs == { p \in RoleProcs : procState[p] = "alive" }

\* C33: whenever the status is READY, no relay, air or ground process spawned
\* by the supervisor is still alive
C33_ReadyMeansNoProcess == status = "READY" => AliveRoleProcs = {}

\* the ground processes, each named like its monitor


\* the ground process m has exited on its own and its monitor has recorded the
\* exit and ended; no other ground process is running
GroundGoneAndHandled(m) ==
    /\ procState[m] \in ExitCodes
    /\ pc[m] = "done"
    /\ exitEvents[m] # <<>>
    /\ \A g \in GroundMonitors : ~Alive(g)

\* C34: once the ground process has exited, with any exit code, and its
\* monitor has finished handling the exit, the status is no longer RAMPING
C34_NoRampAfterGroundGone ==
    \A m \in GroundMonitors : GroundGoneAndHandled(m) => status # "RAMPING"

(***************************************************************************)
(* The telemetry map after the air process has ended                       *)
(***************************************************************************)
AirProcs == { ProcId("air", s) : s \in StartReqs }

\* an air process was spawned and none is running: each has exited or been
\* stopped
AirGone ==
    /\ \E p \in AirProcs : procState[p] \in ExitCodes
    /\ \A p \in AirProcs : ~Alive(p)

\* C35: whenever the air process has exited or been stopped and the status is
\* READY or SAFE, the telemetry field granted is false
C35_NoStaleGrant ==
    AirGone /\ status \in {"READY", "SAFE"} => telemetry.granted = PyBool(FALSE)

(***************************************************************************)
(* The slots against the processes that are running                        *)
(***************************************************************************)
\* C36: each role process the supervisor spawned that has not yet exited is
\* the handle held in its role's slot
C36_AliveIsInSlot ==
    \A p \in RoleProcs : Alive(p) => processes[SlotOf(p)] = p

(***************************************************************************)
(* The shutting-down flag against the stop_all calls in progress           *)
(***************************************************************************)
StopAllInProgress == \E t \in SupTasks : InStopAll(t)

\* C37: the shutting-down flag is true at every moment at which at least one
\* stop_all call is in progress and false whenever none is
C37_FlagIffStopping == shutting_down <=> StopAllInProgress

(***************************************************************************)
(* The STATUS_CHANGE events against the status swaps                       *)
(***************************************************************************)
\* caller c is inside set_status: at its swap or at the add_event that ends it
InSetStatus(c) ==
    \/ spc[c] \in {"ss_lock", "ss_body", "ss_unlock"}
    \/ spc[c] \in {"ae_lock", "ae_body", "ae_unlock", "ae_hook"} /\ sloc[c].code = "STATUS_CHANGE"

\* the old and the new status an event's message names
OldOf(e) == e.msg[2]
NewOf(e) == e.msg[4]

\* C38: under concurrent set_status callers the STATUS_CHANGE events in the
\* log appear in the order in which the status swaps happened, each event's
\* old status equals the previous event's new status, and whenever no
\* set_status call is in progress the newest STATUS_CHANGE event names the
\* current status as its new status
C38_StatusEventsFollowSwaps ==
    LET logged == SelectSeq(appendedAll, IsStatusChange)
        held == SelectSeq(events, IsStatusChange)
    IN /\ Len(logged) <= Len(swaps)
       /\ \A i \in DOMAIN logged :
            OldOf(logged[i]) = swaps[i][1] /\ NewOf(logged[i]) = swaps[i][2]
       /\ held = LastN(logged, Len(held))
       /\ \A i \in 2..Len(held) : OldOf(held[i]) = NewOf(held[i-1])
       /\ (held # <<>> /\ \A c \in StoreCallers : ~InSetStatus(c)) =>
              NewOf(held[Len(held)]) = status

\* both callers have completed a set_status, to different statuses, and the
\* log holds both events
C38_Witness ==
    /\ \A c \in StoreCallers : spc[c] = "idle"
    /\ Len(swaps) = 2
    /\ swaps[1][2] # swaps[2][2]
    /\ Len(SelectSeq(events, IsStatusChange)) = 2

(***************************************************************************)
(* Snapshots against the line decoded last (checked under SpecSnap)        *)
(***************************************************************************)
\* caller c holds a snapshot of the map as the last decoded line left it, and
\* that line was decoded by the named rule without an exception
SnapshotAfter(c, role, rule) ==
    /\ snap[c].set
    /\ snap[c].idx = Len(telHist)
    /\ parsed /\ ~parse_error
    /\ reader = role /\ applied = rule

\* the snapshot's cone_violation is the one computed from the roll and pitch
\* it holds
ConeFromSameLine(v) ==
    /\ "cone_violation" \in DOMAIN v
    /\ v.cone_violation = ConeViolation(v.roll_deg, v.pitch_deg)

\* the snapshot's grant_rate_pct is the one computed from the totals it holds
RateFromSameLine(v) ==
    LET total == v.grants_total.v + v.denies_total.v
    IN IF total > 0
         THEN /\ "grant_rate_pct" \in DOMAIN v
              /\ v.grant_rate_pct = GrantRate(v.grants_total.v, total)
         ELSE "grant_rate_pct" \notin DOMAIN v

\* C39: the telemetry written for one decoded line becomes visible to readers
\* as a unit: no snapshot holds the values of an Air GRANT line together with
\* a cone_violation computed from an earlier line, and none holds the totals
\* of a Ground summary line together with a grant_rate_pct computed from an
\* earlier line
C39_LineVisibleAsUnit ==
    \A c \in StoreCallers :
        /\ SnapshotAfter(c, "air", "grant") => ConeFromSameLine(snap[c].val)
        /\ SnapshotAfter(c, "ground", "summary") => RateFromSameLine(snap[c].val)

(***************************************************************************)
(* What the monitors record of a process the supervisor has stopped        *)
(***************************************************************************)
\* the stop_all of stop request t has sent the group-terminate signal to
\* process m and is in its exit polls for it, before any kill signal
Terminating(t, m) == InStopProcess(pc[t]) /\ loc[t].proc = m

IsError(e) == e[1] = "ERROR"

\* C40: a role process terminated by an operator-requested stop_all is never
\* recorded as PROCESS_CRASH by its monitor (no ERROR-level event), whichever
\* of the stop poll loop and the monitor observes the exit first
C40_StopRecordsNoCrash ==
    \A t \in StopReqs : \A m \in Monitors :
        Terminating(t, m) => SelectSeq(exitEvents[m], IsError) = <<>>

====
